---- MODULE Spec2Model ----
(***************************************************************************)
(* Model of the stacked isometric grid (Grid, Tile, TacticalModeManager,   *)
(* CoordinateTransformer, math utilities).                                 *)
(*                                                                         *)
(* Numbers: opacities are kept in hundredths (1.0 = 100, 0.3 = 30), so     *)
(* that the arithmetic of the source stays in the integers.  All screen    *)
(* and cartesian coordinates of the source are integers for the cell size  *)
(* 64 x 64.  A ghost sprite's depth is kept doubled (field depth2), since  *)
(* the source offsets it by -0.5.                                          *)
(***************************************************************************)
EXTENDS Integers, Sequences, FiniteSets, TLC

VARIABLES
    tiles,          \* Grid.tiles[z][y][x]: a Tile record or NULL
    direction,      \* Grid.direction, the current view direction
    isMode2Active,  \* TacticalModeManager.isMode2Active
    ghostCubes,     \* TacticalModeManager.ghostCubes[z][y][x]: sprite id or NoSprite
    spritePool,     \* TacticalModeManager.spritePool: sequence of sprite ids
    sprites,        \* the ghost sprites created so far: sequence of sprite records
    call,           \* the host's last call of the grid API and its arguments
    ret,            \* what that call returned (NULL when it returns nothing)
    steps           \* number of API calls made so far

vars == <<tiles, direction, isMode2Active, ghostCubes, spritePool, sprites, call, ret, steps>>

-----------------------------------------------------------------------------
(* Bounds of the model.                                                    *)

\* config.column, config.row, config.maxZ of the modelled grid instance
column == 2
row == 2
maxZ == 4
\* number of API calls in a behaviour
MaxSteps == 3

-----------------------------------------------------------------------------
(* Program constants.                                                      *)

\* Grid statics, read by Tile
WIDTH == 64
HEIGHT == 64
OFFSET_X == 512
OFFSET_Y == 288
OFFSET_Z == 32
\* DEFAULT_CONFIG, the per-instance configuration of `new Grid(scene)`
width == 64
height == 64
offsetX == 512
offsetY == 288
offsetZ == 32
\* TACTICAL_MODE_2, opacities in hundredths, depth offset doubled
GHOST_ALPHA == 20
GHOST_TINT == 6710886
GHOST_DEPTH_OFFSET2 == -1
MIN_ALPHA == 30
ALPHA_INCREMENT == 15
MAX_ALPHA == 70
\* TacticalModeManager.maxPoolSize
maxPoolSize == 100
\* the stair tile kind of Tile.applyDirectionFrame
STAIR_ID == 2
\* opacity 1.0 in hundredths
FULL_ALPHA == 100
\* TACTICAL_MODE.TINT_COLORS: 0xffffff, 0xaaccff, 0x6699ff, 0x3366ff, 0x0033ff,
\* 0x0000cc
TINT_COLORS == <<16777215, 11193599, 6724095, 3368703, 13311, 204>>
\* HIGHLIGHT.COLOR (0xffff00) and HIGHLIGHT.BRIGHTNESS_INCREASE (percent)
HIGHLIGHT_COLOR == 16776960
BRIGHTNESS_INCREASE == 30
\* frame size of the block textures (rendering backend: sprite bounds)
SPRITE_W == 64
SPRITE_H == 64

\* enum Direction
North == 0
East == 1
South == 2
West == 3
Directions == {North, East, South, West}

\* JavaScript null / undefined of a number-valued field
null == -1
undefined == -2
\* a null object reference (Tile | null)
NULL == [null |-> TRUE]
\* no ghost sprite in a slot of ghostCubes
NoSprite == 0

Xs == 0 .. column - 1
Ys == 0 .. row - 1
Zs == 0 .. maxZ

Min(a, b) == IF a < b THEN a ELSE b

-----------------------------------------------------------------------------
(* Payloads (OptionalTileSetter).                                          *)

\* null, a bare number (0 is the empty marker), or a record {id, z?, object?, direction?}
NullSetter == [t |-> "null"]
NumSetter(n) == [t |-> "number", n |-> n]
ObjSetter(id, z, object, dir) == [t |-> "object", id |-> id, z |-> z, object |-> object, direction |-> dir]

\* JavaScript `!tile` for a payload
Falsy(tile) == tile.t = "null" \/ (tile.t = "number" /\ tile.n = 0)

\* a ?? b
Coalesce(a, b) == IF a = null \/ a = undefined THEN b ELSE a

-----------------------------------------------------------------------------
(* Coordinate transforms.                                                  *)

\* CoordinateTransformer.getRenderCartCoords with column in the place of row:
\* right on square grids only
transformer_getRenderCartCoords_square(tr, x, y, dir) ==
    CASE dir = North -> <<x * tr.width, y * tr.height>>
      [] dir = East -> <<y * tr.width, (tr.column - 1 - x) * tr.height>>
      [] dir = South -> <<(tr.column - 1 - x) * tr.width, (tr.column - 1 - y) * tr.height>>
      [] dir = West -> <<(tr.column - 1 - y) * tr.width, x * tr.height>>
      [] OTHER -> <<x * tr.width, y * tr.height>>

\* CoordinateTransformer.getRenderCartCoords(x, y, direction) of the
\* transformer tr = [width, height, column, row]
transformer_getRenderCartCoords(tr, x, y, dir) ==
    CASE dir = North -> <<x * tr.width, y * tr.height>>
      [] dir = East -> <<y * tr.width, (tr.column - 1 - x) * tr.height>>
      [] dir = South -> <<(tr.column - 1 - x) * tr.width, (tr.row - 1 - y) * tr.height>>
      [] dir = West -> <<(tr.row - 1 - y) * tr.width, x * tr.height>>
      [] OTHER -> <<x * tr.width, y * tr.height>>

\* the grid's transformer
coordinateTransformer == [width |-> width, height |-> height, column |-> column, row |-> row]

\* Grid.getRenderCartCoords(x, y), the grid looking towards dir
getRenderCartCoords(x, y, dir) ==
    transformer_getRenderCartCoords(coordinateTransformer, x, y, dir)

\* cart2iso(x, y).  The halvings of cart2iso, iso2cart and
\* calculateIsoScreenPosition are exact on the numbers they are applied to:
\* the grid's lengths are multiples of 64, and the calls of FunctionSpec
\* count lengths in quarters.
cart2iso(x, y) == <<x - y, (x + y) \div 2>>

\* iso2cart without the halving
iso2cart_noHalf(x, y) == <<(2 * y) + x, (2 * y) - x>>

\* iso2cart(x, y)
iso2cart(x, y) == <<((2 * y) + x) \div 2, ((2 * y) - x) \div 2>>

\* calculateIsoScreenPosition with the height added instead of subtracted
calculateIsoScreenPosition_down(cartX, cartY, z, offX, offY, offZ) ==
    LET iso == cart2iso(cartX, cartY)
    IN  <<(iso[1] \div 2) + offX, (iso[2] \div 2) + offY + offZ * z>>

calculateIsoScreenPosition(cartX, cartY, z, offX, offY, offZ) ==
    LET iso == cart2iso(cartX, cartY)
    IN  <<(iso[1] \div 2) + offX, (iso[2] \div 2) + offY - offZ * z>>

-----------------------------------------------------------------------------
(* Tile.                                                                   *)

\* A sprite of the rendering backend.  texture: the tile or object kind whose
\* texture key ('t' + id, 'o' + id) it shows, 0 for the empty key ''.
\* tint: the colour the sprite is tinted with, null for the untinted state
\* (white, which is also what clearTint sets); tintFill: the colour replaces
\* the texture's colours instead of multiplying them.
NewSprite(sx, sy, texture, visible) ==
    [x |-> sx, y |-> sy, depth |-> 0, visible |-> visible, alpha |-> FULL_ALPHA,
     frame |-> 0, texture |-> texture, tint |-> null, tintFill |-> FALSE]

\* NewTile whose level is the constructor's default 0
NewTile_groundZ(id, x, y, z, dir) ==
    LET c == getRenderCartCoords(x, y, dir)
        s == calculateIsoScreenPosition(c[1], c[2], 0, OFFSET_X, OFFSET_Y, OFFSET_Z)
    IN  [x |-> x, y |-> y, z |-> 0,
         tileId |-> null, tileDirection |-> null, object |-> null,
         by |-> s[2],
         sprite |-> NewSprite(s[1], s[2], id, TRUE),
         ssprite |-> NewSprite(s[1], s[2], 0, FALSE),
         zLevelText |-> NULL,
         tacticalModeActive |-> FALSE,
         tacticalMode2Active |-> FALSE,
         tacticalTint |-> null,
         originalAlpha |-> FULL_ALPHA,
         isTopCube |-> TRUE]

\* new Tile(scene, id, x, y, z) while the grid looks towards dir
NewTile(id, x, y, z, dir) ==
    LET c == getRenderCartCoords(x, y, dir)
        s == calculateIsoScreenPosition(c[1], c[2], 0, OFFSET_X, OFFSET_Y, OFFSET_Z)
    IN  [x |-> x, y |-> y, z |-> z,
         tileId |-> null, tileDirection |-> null, object |-> null,
         by |-> s[2],
         sprite |-> NewSprite(s[1], s[2], id, TRUE),
         ssprite |-> NewSprite(s[1], s[2], 0, FALSE),
         zLevelText |-> NULL,
         tacticalModeActive |-> FALSE,
         tacticalMode2Active |-> FALSE,
         tacticalTint |-> null,
         originalAlpha |-> FULL_ALPHA,
         isTopCube |-> TRUE]

\* frameIndex without the stair branch: a stair turns like any other tile
frameIndex_noStair(t, dir) ==
    IF t.tileDirection # null THEN (t.tileDirection + dir) % 4 ELSE dir

\* The frame index Tile.applyDirectionFrame selects (no animation is registered:
\* AnimationManager.anims is empty after construction).
frameIndex(t, dir) ==
    IF t.tileId = STAIR_ID /\ t.tileDirection # null
        THEN (t.tileDirection - dir + 4) % 4
        ELSE IF t.tileDirection # null
            THEN (t.tileDirection + dir) % 4
            ELSE dir

applyDirectionFrame(t, dir) ==
    LET f == frameIndex(t, dir)
    IN  [t EXCEPT !.sprite.frame = f,
                  !.ssprite.frame = IF t.ssprite.texture # 0 THEN f ELSE @]

\* Tile.setTile(id)
Tile_setTile(t, id, dir) ==
    LET y == t.by - OFFSET_Z * t.z
        t1 == [t EXCEPT !.tileId = id,
                        !.sprite.texture = id,
                        !.sprite.y = y,
                        !.sprite.depth = (WIDTH * t.x) + (HEIGHT * t.y) + (OFFSET_Z * t.z),
                        !.sprite.visible = TRUE]
    IN  applyDirectionFrame(t1, dir)

\* Tile.setObject(id); AnimationManager.offsets is empty, so the offset is 0
Tile_setObject(t, id, dir) ==
    LET offset == 0
        y == t.by - (OFFSET_Z * t.z) - offset
        t1 == [t EXCEPT !.ssprite.texture = id,
                        !.ssprite.y = y,
                        !.ssprite.depth = t.sprite.depth + offset,
                        !.ssprite.visible = TRUE]
    IN  applyDirectionFrame(t1, dir)

\* Tile.set(setter)
Tile_set(t, setter, dir) ==
    IF Falsy(setter)
    THEN [t EXCEPT !.sprite.visible = FALSE, !.ssprite.visible = FALSE,
                   !.tileId = null, !.tileDirection = null, !.object = null]
    ELSE IF setter.t = "object"
    THEN LET t1 == [t EXCEPT !.z = Coalesce(setter.z, 0),
                             !.tileDirection = Coalesce(setter.direction, null)]
             t2 == Tile_setTile(t1, setter.id, dir)
             t3 == [t2 EXCEPT !.object = Coalesce(setter.object, null)]
         IN  IF setter.object # undefined /\ setter.object # null /\ setter.object # 0
             THEN Tile_setObject(t3, setter.object, dir)
             ELSE [t3 EXCEPT !.ssprite.visible = FALSE]
    ELSE Tile_setTile([t EXCEPT !.tileDirection = null], setter.n, dir)

\* sprite.setTint(color): white is the untinted state
setTint(sp, color) ==
    [sp EXCEPT !.tint = IF color = 16777215 THEN null ELSE color, !.tintFill = FALSE]

\* sprite.setTintFill(color)
setTintFill(sp, color) == [sp EXCEPT !.tint = color, !.tintFill = TRUE]

\* sprite.clearTint()
clearTint(sp) == [sp EXCEPT !.tint = null, !.tintFill = FALSE]

\* the red, green and blue parts of a colour, and the colour of three parts
Red(color) == color \div 65536
Green(color) == (color \div 256) % 256
Blue(color) == color % 256
RGB(r, g, b) == (r * 65536) + (g * 256) + b

\* Phaser.Display.Color.ValueToColor(color).lighten(amount).color: the value
\* (the largest part, as a fraction of 255) grows by amount percent of the
\* full value, hue and saturation are kept, so that every part grows in the
\* proportion of the value; parts are rounded and stop at 255
lighten(color, amount) ==
    LET max3 == IF Red(color) >= Green(color) /\ Red(color) >= Blue(color) THEN Red(color)
                ELSE IF Green(color) >= Blue(color) THEN Green(color) ELSE Blue(color)
        grey == ((2 * 255 * amount) + 100) \div 200
        part(p) == IF max3 = 0 THEN grey
                   ELSE Min(255, ((2 * p * ((100 * max3) + (255 * amount))) + (100 * max3))
                                     \div (200 * max3))
    IN  RGB(part(Red(color)), part(Green(color)), part(Blue(color)))

\* Tile.setHighlighted whose off-branch always clears the tint
Tile_setHighlighted_alwaysClear(t, on) ==
    IF on
    THEN IF t.tacticalModeActive /\ t.tacticalTint # null
         THEN LET highlightTint == lighten(t.tacticalTint, BRIGHTNESS_INCREASE)
              IN  [t EXCEPT !.sprite = setTint(@, highlightTint),
                            !.ssprite = setTint(@, highlightTint)]
         ELSE [t EXCEPT !.sprite = setTintFill(@, HIGHLIGHT_COLOR),
                        !.ssprite = setTintFill(@, HIGHLIGHT_COLOR)]
    ELSE [t EXCEPT !.sprite = clearTint(@), !.ssprite = clearTint(@)]

\* Tile.setHighlighted(on)
Tile_setHighlighted(t, on) ==
    IF on
    THEN IF t.tacticalModeActive /\ t.tacticalTint # null
         THEN LET highlightTint == lighten(t.tacticalTint, BRIGHTNESS_INCREASE)
              IN  [t EXCEPT !.sprite = setTint(@, highlightTint),
                            !.ssprite = setTint(@, highlightTint)]
         ELSE [t EXCEPT !.sprite = setTintFill(@, HIGHLIGHT_COLOR),
                        !.ssprite = setTintFill(@, HIGHLIGHT_COLOR)]
    ELSE IF t.tacticalModeActive /\ t.tacticalTint # null
         THEN [t EXCEPT !.sprite = setTint(@, t.tacticalTint),
                        !.ssprite = setTint(@, t.tacticalTint)]
         ELSE [t EXCEPT !.sprite = clearTint(@), !.ssprite = clearTint(@)]

\* the z-level label follows the sprite (Tile.setTacticalMode, Tile.updateView)
TEXT_OFFSET_Y == 20
TEXT_DEPTH_OFFSET == 1000

\* the label text `z${z}`
LabelText(z) == <<"z", z>>

\* Tile.setTacticalMode(enabled) while the grid looks towards dir
Tile_setTacticalMode(t, enabled, dir) ==
    IF ~t.sprite.visible THEN t
    ELSE IF enabled
    THEN LET tint == TINT_COLORS[Min(t.z, Len(TINT_COLORS) - 1) + 1]
             c == getRenderCartCoords(t.x, t.y, dir)
             s == calculateIsoScreenPosition(c[1], c[2], t.z, OFFSET_X, OFFSET_Y, OFFSET_Z)
             created == IF t.zLevelText = NULL
                        THEN [x |-> s[1], y |-> s[2] - TEXT_OFFSET_Y,
                              depth |-> t.sprite.depth + TEXT_DEPTH_OFFSET,
                              visible |-> TRUE, text |-> LabelText(t.z)]
                        ELSE t.zLevelText
         IN  [t EXCEPT !.tacticalModeActive = TRUE,
                       !.tacticalTint = tint,
                       !.sprite = setTint(@, tint),
                       !.ssprite = setTint(@, tint),
                       !.zLevelText = [created EXCEPT !.visible = TRUE,
                                                      !.x = t.sprite.x,
                                                      !.y = t.sprite.y - TEXT_OFFSET_Y,
                                                      !.text = LabelText(t.z)]]
    ELSE [t EXCEPT !.tacticalModeActive = FALSE,
                   !.tacticalTint = null,
                   !.sprite = clearTint(@),
                   !.ssprite = clearTint(@),
                   !.zLevelText = IF @ = NULL THEN NULL ELSE [@ EXCEPT !.visible = FALSE]]

\* Tile.set(setter) on a tile whose texture binds throw: the try blocks of
\* Tile.setTile and Tile.setObject are left at setTexture, the error is caught
\* and logged, and only the assignments outside them take place
Tile_set_throwing(t, setter, dir) ==
    IF Falsy(setter)
    THEN [t EXCEPT !.sprite.visible = FALSE, !.ssprite.visible = FALSE,
                   !.tileId = null, !.tileDirection = null, !.object = null]
    ELSE IF setter.t = "object"
    THEN LET t3 == [t EXCEPT !.z = Coalesce(setter.z, 0),
                             !.tileDirection = Coalesce(setter.direction, null),
                             !.tileId = setter.id,
                             !.object = Coalesce(setter.object, null)]
         IN  IF setter.object # undefined /\ setter.object # null /\ setter.object # 0
             THEN t3
             ELSE [t3 EXCEPT !.ssprite.visible = FALSE]
    ELSE [t EXCEPT !.tileDirection = null, !.tileId = setter.n]

\* Tile.setTacticalMode(enabled) on a visible tile whose sprite throws at
\* setTint or clearTint: the fields are assigned, then the error leaves the
\* method
Tile_setTacticalMode_throwing(t, enabled) ==
    [t EXCEPT !.tacticalModeActive = enabled,
              !.tacticalTint = IF enabled
                               THEN TINT_COLORS[Min(t.z, Len(TINT_COLORS) - 1) + 1]
                               ELSE null]

\* xrayAlpha without the cap at MAX_ALPHA
xrayAlpha_noCap(t) ==
    IF t.isTopCube THEN FULL_ALPHA ELSE MIN_ALPHA + (t.z * ALPHA_INCREMENT)

\* the opacity Tile.setTacticalMode2(true) gives the tile
xrayAlpha(t) ==
    IF t.isTopCube
    THEN FULL_ALPHA
    ELSE Min(MIN_ALPHA + (t.z * ALPHA_INCREMENT), MAX_ALPHA)

\* Tile.setTacticalMode2(enabled)
Tile_setTacticalMode2(t, enabled) ==
    IF enabled
    THEN LET alpha == xrayAlpha(t)
             retint == t.tacticalModeActive /\ t.tacticalTint # null
             shown == [t EXCEPT !.tacticalMode2Active = TRUE,
                                !.originalAlpha = IF @ = FULL_ALPHA THEN t.sprite.alpha ELSE @,
                                !.sprite.visible = TRUE,
                                !.ssprite.visible = TRUE,
                                !.sprite.alpha = alpha,
                                !.ssprite.alpha = alpha]
         IN  IF retint
             THEN [shown EXCEPT !.sprite = setTint(@, t.tacticalTint),
                                !.ssprite = setTint(@, t.tacticalTint)]
             ELSE shown
    ELSE IF ~t.isTopCube
    THEN [t EXCEPT !.tacticalMode2Active = FALSE,
                   !.sprite.visible = FALSE,
                   !.ssprite.visible = FALSE]
    ELSE [t EXCEPT !.tacticalMode2Active = FALSE,
                   !.sprite.alpha = t.originalAlpha,
                   !.ssprite.alpha = t.originalAlpha,
                   !.sprite.visible = TRUE,
                   !.ssprite.visible = TRUE]

\* Tile.updateView()
Tile_updateView(t, dir) ==
    LET c == getRenderCartCoords(t.x, t.y, dir)
        s == calculateIsoScreenPosition(c[1], c[2], 0, OFFSET_X, OFFSET_Y, OFFSET_Z)
        y == s[2] - OFFSET_Z * t.z
        d == c[1] + c[2] + (OFFSET_Z * t.z)
        offset == 0
        t1 == [t EXCEPT !.by = s[2],
                        !.sprite.x = s[1], !.sprite.y = y, !.sprite.depth = d,
                        !.ssprite.x = s[1], !.ssprite.y = y - offset,
                        !.ssprite.depth = d + offset,
                        !.zLevelText = IF @ = NULL THEN NULL
                                       ELSE [@ EXCEPT !.x = s[1], !.y = y - TEXT_OFFSET_Y,
                                                      !.depth = d + TEXT_DEPTH_OFFSET]]
    IN  applyDirectionFrame(t1, dir)

\* Tile.containsPoint: the sprite's bounds (origin at its centre) contain the
\* point, as Phaser.Geom.Rectangle.Contains decides it
containsPoint(t, screenX, screenY) ==
    LET left == t.sprite.x - (SPRITE_W \div 2)
        top == t.sprite.y - (SPRITE_H \div 2)
    IN  /\ left <= screenX /\ left + SPRITE_W >= screenX
        /\ top <= screenY /\ top + SPRITE_H >= screenY

-----------------------------------------------------------------------------
(* Grid: lookup, picking, mutation.                                        *)

EmptyTiles == [z \in Zs |-> [y \in Ys |-> [x \in Xs |-> NULL]]]

\* TopFrom searching from the ground up: the lowest occupied slot
TopFrom_fromGround(ts, x, y, zz) ==
    LET occ == {z \in 0 .. zz : ts[z][y][x] # NULL}
    IN  IF occ = {} THEN NULL
        ELSE ts[CHOOSE z \in occ : \A w \in occ : z <= w][y][x]

\* Grid.getTile(x, y, z?); z = undefined when the argument is omitted
RECURSIVE TopFrom(_, _, _, _)
TopFrom(ts, x, y, zz) ==
    IF zz < 0 THEN NULL
    ELSE IF ts[zz][y][x] # NULL THEN ts[zz][y][x]
    ELSE TopFrom(ts, x, y, zz - 1)

getTile(ts, x, y, z) ==
    IF x < 0 \/ x >= column \/ y < 0 \/ y >= row THEN NULL
    ELSE IF z # undefined
    THEN (IF z < 0 \/ z > maxZ THEN NULL ELSE ts[z][y][x])
    ELSE TopFrom(ts, x, y, maxZ)

\* Grid.getTileByIsoPos(x, y): levels from maxZ down, each level row by row,
\* the first tile containing the point is returned
RECURSIVE ScanLevel(_, _, _, _, _)
ScanLevel(ts, z, k, px, py) ==
    IF k >= row * column THEN NULL
    ELSE LET gy == k \div column
             gx == k % column
             tile == ts[z][gy][gx]
         IN  IF tile # NULL /\ containsPoint(tile, px, py)
             THEN tile
             ELSE ScanLevel(ts, z, k + 1, px, py)

\* ScanFrom with the levels taken from the ground up
ScanFrom_bottomUp(ts, z, px, py) ==
    LET lv == {l \in 0 .. z : ScanLevel(ts, l, 0, px, py) # NULL}
    IN  IF lv = {} THEN NULL
        ELSE ScanLevel(ts, CHOOSE l \in lv : \A w \in lv : l <= w, 0, px, py)

RECURSIVE ScanFrom(_, _, _, _)
ScanFrom(ts, z, px, py) ==
    IF z < 0 THEN NULL
    ELSE LET hit == ScanLevel(ts, z, 0, px, py)
         IN  IF hit # NULL THEN hit ELSE ScanFrom(ts, z - 1, px, py)

\* getTileByIsoPos keeping the hit of greatest depth (the first such in scan order)
getTileByIsoPos_bestDepth(ts, px, py) ==
    LET rank(c) == ((maxZ - c[3]) * row * column) + (c[2] * column) + c[1]
        hits == {c \in Xs \X Ys \X Zs :
                    /\ ts[c[3]][c[2]][c[1]] # NULL
                    /\ containsPoint(ts[c[3]][c[2]][c[1]], px, py)}
        depth(c) == ts[c[3]][c[2]][c[1]].sprite.depth
        best == CHOOSE c \in hits : \A d \in hits :
                    \/ depth(c) > depth(d)
                    \/ (depth(c) = depth(d) /\ rank(c) <= rank(d))
    IN  IF hits = {} THEN NULL ELSE ts[best[3]][best[2]][best[1]]

getTileByIsoPos(ts, px, py) == ScanFrom(ts, maxZ, px, py)

\* LevelSetter with the facing not handed on
LevelSetter_noDirection(tile, tileId, zz) ==
    IF tile.t = "object"
    THEN ObjSetter(tileId, zz, tile.object, undefined)
    ELSE NumSetter(tileId)

\* the setter Grid.setTile hands to the tile at level zz
LevelSetter(tile, tileId, zz) ==
    IF tile.t = "object"
    THEN ObjSetter(tileId, zz, tile.object, tile.direction)
    ELSE NumSetter(tileId)

\* inBounds without the test z < 0
inBounds_noLowerZ(x, y, z) ==
    ~(x < 0 \/ x >= column \/ y < 0 \/ y >= row \/ z > maxZ)

\* the bounds check of Grid.setTile
inBounds(x, y, z) ==
    ~(x < 0 \/ x >= column \/ y < 0 \/ y >= row \/ z < 0 \/ z > maxZ)

\* removeFrom emptying the slot at `from` alone
removeFrom_onlyOne(ts, x, y, from) ==
    [zz \in Zs |-> IF zz = from THEN [ts[zz] EXCEPT ![y][x] = NULL] ELSE ts[zz]]

\* the removal loop of Grid.setTile: every slot of column (x, y) from level
\* `from` up is emptied (the removed Tile hides its sprites and is dropped)
removeFrom(ts, x, y, from) ==
    [zz \in Zs |-> IF zz >= from THEN [ts[zz] EXCEPT ![y][x] = NULL] ELSE ts[zz]]

\* fillBelow creating nothing
fillBelow_none(ts, x, y, z, tile, tileId, dir) == ts

\* the loop of Grid.setTile that creates the missing cubes below z
fillBelow(ts, x, y, z, tile, tileId, dir) ==
    [zz \in Zs |->
        IF zz < z /\ ts[zz][y][x] = NULL
        THEN [ts[zz] EXCEPT ![y][x] = Tile_set(NewTile(tileId, x, y, zz, dir),
                                              LevelSetter(tile, tileId, zz), dir)]
        ELSE ts[zz]]

\* placeTarget handing the setter to every cube of the column up to z
placeTarget_column(ts, x, y, z, tile, tileId, dir) ==
    [zz \in Zs |->
        IF zz <= z
        THEN [ts[zz] EXCEPT ![y][x] =
                 Tile_set(IF @ = NULL THEN NewTile(tileId, x, y, zz, dir) ELSE @,
                          LevelSetter(tile, tileId, zz), dir)]
        ELSE ts[zz]]

\* Grid.setTile: update or create the cube at the target level
placeTarget(ts, x, y, z, tile, tileId, dir) ==
    LET targetTile == IF ts[z][y][x] = NULL THEN NewTile(tileId, x, y, z, dir)
                      ELSE ts[z][y][x]
    IN  [ts EXCEPT ![z][y][x] = Tile_set(targetTile, LevelSetter(tile, tileId, z), dir)]

\* Grid.setTile(x, y, z, tile) while the grid looks towards dir
setTile(ts, x, y, z, tile, dir) ==
    IF ~inBounds(x, y, z) THEN ts
    ELSE IF Falsy(tile) THEN removeFrom(ts, x, y, z)
    ELSE LET tileId == IF tile.t = "object" THEN Coalesce(tile.id, 1) ELSE tile.n
         IN  IF tileId = 0 THEN ts
             ELSE removeFrom(
                      placeTarget(fillBelow(ts, x, y, z, tile, tileId, dir),
                                  x, y, z, tile, tileId, dir),
                      x, y, z + 1)

\* Grid.setTile(x, y, z, tile) for a cell whose texture binds throw
setTile_throwing(ts, x, y, z, tile, dir) ==
    IF ~inBounds(x, y, z) THEN ts
    ELSE IF Falsy(tile) THEN removeFrom(ts, x, y, z)
    ELSE LET tileId == IF tile.t = "object" THEN Coalesce(tile.id, 1) ELSE tile.n
             filled == [zz \in Zs |->
                           IF zz < z /\ ts[zz][y][x] = NULL
                           THEN [ts[zz] EXCEPT ![y][x] =
                                    Tile_set_throwing(NewTile(tileId, x, y, zz, dir),
                                                      LevelSetter(tile, tileId, zz), dir)]
                           ELSE ts[zz]]
             targetTile == IF filled[z][y][x] = NULL THEN NewTile(tileId, x, y, z, dir)
                           ELSE filled[z][y][x]
             placed == [filled EXCEPT ![z][y][x] =
                           Tile_set_throwing(targetTile, LevelSetter(tile, tileId, z), dir)]
         IN  IF tileId = 0 THEN ts ELSE removeFrom(placed, x, y, z + 1)

\* clearAll removing nothing
clearAll_none(ts) == ts

\* the first loop of Grid.setGrid: every tile is removed
clearAll(ts) == [z \in Zs |-> [y \in Ys |-> [x \in Xs |-> NULL]]]

\* Grid.setGrid(layout): clear every slot, then setTile for each non-empty
\* cell, row by row
RECURSIVE SetGridFrom(_, _, _, _)
SetGridFrom(ts, layout, k, dir) ==
    IF k >= row * column THEN ts
    ELSE LET y == k \div column
             x == k % column
             tileData == layout[y][x]
             z == IF tileData.t = "object" THEN Coalesce(tileData.z, 0) ELSE 0
         IN  SetGridFrom(IF Falsy(tileData) THEN ts
                         ELSE setTile(ts, x, y, z, tileData, dir),
                         layout, k + 1, dir)

setGrid(ts, layout, dir) == SetGridFrom(clearAll(ts), layout, 0, dir)

\* Grid.setGrid(layout) while the texture binds of cell `fault` throw
setGrid_faulty(ts, layout, dir, fault) ==
    LET from[k \in 0 .. row * column] ==
            IF k = 0 THEN clearAll(ts)
            ELSE LET y == (k - 1) \div column
                     x == (k - 1) % column
                     tileData == layout[y][x]
                     z == IF tileData.t = "object" THEN Coalesce(tileData.z, 0) ELSE 0
                 IN  IF Falsy(tileData) THEN from[k - 1]
                     ELSE IF <<x, y>> = fault
                     THEN setTile_throwing(from[k - 1], x, y, z, tileData, dir)
                     ELSE setTile(from[k - 1], x, y, z, tileData, dir)
    IN  from[row * column]

\* updateTiles without the loop: no tile recomputes its view
updateTiles_none(ts, dir) == ts

\* Grid.updateDirection(dir): every tile recomputes its view
updateTiles(ts, dir) ==
    [z \in Zs |-> [y \in Ys |-> [x \in Xs |->
        IF ts[z][y][x] # NULL THEN Tile_updateView(ts[z][y][x], dir) ELSE NULL]]]

-----------------------------------------------------------------------------
(* TacticalModeManager: top marking, ghost sprites and their pool.         *)
(* The manager's state is handled as a record m = [ghostCubes, spritePool, *)
(* sprites]; a sprite is named by its index in sprites.                    *)

EmptyGhosts == [z \in Zs |-> [y \in Ys |-> [x \in Xs |-> NoSprite]]]

NumSlots == (maxZ + 1) * row * column
SlotZ(k) == k \div (row * column)
SlotY(k) == (k \div column) % row
SlotX(k) == k % column

\* TopZFrom without the break: the search runs on to the lowest placed cube
TopZFrom_noBreak(ts, x, y, z) ==
    LET occ == {w \in 0 .. z : ts[w][y][x] # NULL /\ ts[w][y][x].tileId # null}
    IN  IF occ = {} THEN -1 ELSE CHOOSE w \in occ : \A v \in occ : w <= v

\* TacticalModeManager.markTopCubes(tiles)
RECURSIVE TopZFrom(_, _, _, _)
TopZFrom(ts, x, y, z) ==
    IF z < 0 THEN -1
    ELSE IF ts[z][y][x] # NULL /\ ts[z][y][x].tileId # null THEN z
    ELSE TopZFrom(ts, x, y, z - 1)

markTopCubes(ts) ==
    [z \in Zs |-> [y \in Ys |-> [x \in Xs |->
        IF ts[z][y][x] # NULL
        THEN [ts[z][y][x] EXCEPT !.isTopCube = (z = TopZFrom(ts, x, y, maxZ))]
        ELSE NULL]]]

\* returnToPool without the capacity test: every released sprite is pushed
returnToPool_noCapacity(m, id) ==
    [m EXCEPT !.sprites = [@ EXCEPT ![id].visible = FALSE], !.spritePool = Append(@, id)]

\* TacticalModeManager.returnToPool(sprite)
returnToPool(m, id) ==
    LET hidden == [m.sprites EXCEPT ![id].visible = FALSE]
    IN  IF Len(m.spritePool) < maxPoolSize
        THEN [m EXCEPT !.sprites = hidden, !.spritePool = Append(@, id)]
        ELSE [m EXCEPT !.sprites = [hidden EXCEPT ![id].destroyed = TRUE]]

\* getPooledSprite without the pool: a sprite is constructed at every call
getPooledSprite_alwaysNew(m) ==
    [m |-> [m EXCEPT !.sprites = Append(@,
                [x |-> 0, y |-> 0, depth2 |-> 0, visible |-> TRUE,
                 alpha |-> FULL_ALPHA, tint |-> null, destroyed |-> FALSE])],
     id |-> Len(m.sprites) + 1]

\* TacticalModeManager.getPooledSprite(): the manager after the call and the
\* sprite it hands out
getPooledSprite(m) ==
    IF Len(m.spritePool) > 0
    THEN LET id == m.spritePool[Len(m.spritePool)]
         IN  [m |-> [m EXCEPT !.spritePool = SubSeq(@, 1, Len(@) - 1),
                              !.sprites = [@ EXCEPT ![id].visible = TRUE]],
              id |-> id]
    ELSE [m |-> [m EXCEPT !.sprites = Append(@,
                    [x |-> 0, y |-> 0, depth2 |-> 0, visible |-> TRUE,
                     alpha |-> FULL_ALPHA, tint |-> null, destroyed |-> FALSE])],
          id |-> Len(m.sprites) + 1]

\* the manager's fields are evaluated: TLC then carries a value, not a pending
\* expression, from one iteration of a loop to the next
Settled(m) == DOMAIN m.ghostCubes = Zs

\* removeGhostAt without the release: the ghost is only dropped from the array
removeGhostAt_noRelease(m, x, y, z) == m

\* the body of the loop of removeGhostCubes at (x, y, z)
removeGhostAt(m, x, y, z) ==
    LET ghost == m.ghostCubes[z][y][x]
    IN  IF ghost # NoSprite THEN returnToPool(m, ghost) ELSE m

\* removeGhostCubes, "for x": row y of level z, cells[x] being the manager
\* after the first x slots of the row
removeGhostRow(m, y, z) ==
    LET cells[x \in 0 .. column] ==
            IF x = 0 THEN m
            ELSE LET before == cells[x - 1]
                 IN  IF Settled(before) THEN removeGhostAt(before, x - 1, y, z) ELSE before
    IN  cells[column]

\* removeGhostCubes, "for y": level z
removeGhostLevel(m, z) ==
    LET rows[y \in 0 .. row] ==
            IF y = 0 THEN m
            ELSE LET before == rows[y - 1]
                 IN  IF Settled(before) THEN removeGhostRow(before, y - 1, z) ELSE before
    IN  rows[row]

\* TacticalModeManager.removeGhostCubes(): "for z", then the array is reset
removeGhostCubes(m) ==
    LET levels[z \in 0 .. maxZ + 1] ==
            IF z = 0 THEN m
            ELSE LET before == levels[z - 1]
                 IN  IF Settled(before) THEN removeGhostLevel(before, z - 1) ELSE before
    IN  [levels[maxZ + 1] EXCEPT !.ghostCubes = EmptyGhosts]

\* the placement of a ghost at (x, y, z): position, doubled depth
GhostPlaced(sp, x, y, z, dir) ==
    LET c == getRenderCartCoords(x, y, dir)
        s == calculateIsoScreenPosition(c[1], c[2], z, offsetX, offsetY, offsetZ)
    IN  [sp EXCEPT !.x = s[1], !.y = s[2],
                   !.depth2 = 2 * (c[1] + c[2] + offsetZ * z) + GHOST_DEPTH_OFFSET2]

\* createGhostAt without the test for an empty slot: a ghost at every slot
createGhostAt_everySlot(m, ts, dir, x, y, z) ==
    LET got == getPooledSprite(m)
        placed == [GhostPlaced(got.m.sprites[got.id], x, y, z, dir)
                      EXCEPT !.alpha = GHOST_ALPHA, !.tint = GHOST_TINT,
                             !.visible = TRUE]
    IN  [got.m EXCEPT !.sprites[got.id] = placed,
                      !.ghostCubes[z][y][x] = got.id]

\* the body of the loop of createGhostCubes at (x, y, z)
createGhostAt(m, ts, dir, x, y, z) ==
    LET tile == ts[z][y][x]
        isEmpty == tile = NULL \/ tile.tileId = null
        got == getPooledSprite(m)
        placed == [GhostPlaced(got.m.sprites[got.id], x, y, z, dir)
                      EXCEPT !.alpha = GHOST_ALPHA, !.tint = GHOST_TINT,
                             !.visible = TRUE]
    IN  IF isEmpty
        THEN [got.m EXCEPT !.sprites[got.id] = placed,
                           !.ghostCubes[z][y][x] = got.id]
        ELSE m

\* createGhostCubes, "for x": row y of level z
createGhostRow(m, ts, dir, y, z) ==
    LET cells[x \in 0 .. column] ==
            IF x = 0 THEN m
            ELSE LET before == cells[x - 1]
                 IN  IF Settled(before) THEN createGhostAt(before, ts, dir, x - 1, y, z)
                     ELSE before
    IN  cells[column]

\* createGhostCubes, "for y": level z
createGhostLevel(m, ts, dir, z) ==
    LET rows[y \in 0 .. row] ==
            IF y = 0 THEN m
            ELSE LET before == rows[y - 1]
                 IN  IF Settled(before) THEN createGhostRow(before, ts, dir, y - 1, z)
                     ELSE before
    IN  rows[row]

\* createGhostCubes that resets the array without releasing the old ghosts
createGhostCubes_noRelease(m, ts, dir) ==
    LET levels[z \in 0 .. maxZ + 1] ==
            IF z = 0 THEN [m EXCEPT !.ghostCubes = EmptyGhosts]
            ELSE LET before == levels[z - 1]
                 IN  IF Settled(before) THEN createGhostLevel(before, ts, dir, z - 1)
                     ELSE before
    IN  levels[maxZ + 1]

\* TacticalModeManager.createGhostCubes(tiles, direction): the old ghosts are
\* removed, then "for z"
createGhostCubes(m, ts, dir) ==
    LET levels[z \in 0 .. maxZ + 1] ==
            IF z = 0 THEN removeGhostCubes(m)
            ELSE LET before == levels[z - 1]
                 IN  IF Settled(before) THEN createGhostLevel(before, ts, dir, z - 1)
                     ELSE before
    IN  levels[maxZ + 1]

\* updateGhostCubesPositions without the loop: the ghosts stay where they were
updateGhostCubesPositions_none(m, dir) == m

\* TacticalModeManager.updateGhostCubesPositions(direction)
updateGhostCubesPositions(m, dir) ==
    [m EXCEPT !.sprites = [id \in DOMAIN m.sprites |->
        LET at == {k \in 0 .. NumSlots - 1 :
                       m.ghostCubes[SlotZ(k)][SlotY(k)][SlotX(k)] = id}
        IN  IF at = {} THEN m.sprites[id]
            ELSE LET k == CHOOSE k \in at : \A j \in at : j <= k
                 IN  GhostPlaced(m.sprites[id], SlotX(k), SlotY(k), SlotZ(k), dir)]]

\* TacticalModeManager.setTacticalMode(enabled, tiles): every tile's
\* Tile.setTacticalMode(enabled)
tilesSetTacticalMode(ts, enabled, dir) ==
    [z \in Zs |-> [y \in Ys |-> [x \in Xs |->
        IF ts[z][y][x] # NULL THEN Tile_setTacticalMode(ts[z][y][x], enabled, dir) ELSE NULL]]]

\* TacticalModeManager.setTacticalMode(enabled, tiles) while the sprite of the
\* tile at slot `fault` throws: nothing catches the error, so the loops (z,
\* then y, then x) end at that tile and the slots after it are not visited.
\* An empty slot and an invisible tile make no call that can throw.
tilesSetTacticalMode_faulty(ts, enabled, dir, fault) ==
    LET index(x, y, z) == (z * row * column) + (y * column) + x
        at == index(fault[1], fault[2], fault[3])
        failing == ts[fault[3]][fault[2]][fault[1]]
        thrown == failing # NULL /\ failing.sprite.visible
    IN  [z \in Zs |-> [y \in Ys |-> [x \in Xs |->
            IF ts[z][y][x] = NULL THEN NULL
            ELSE IF ~thrown \/ index(x, y, z) < at
            THEN Tile_setTacticalMode(ts[z][y][x], enabled, dir)
            ELSE IF index(x, y, z) = at
            THEN Tile_setTacticalMode_throwing(ts[z][y][x], enabled)
            ELSE ts[z][y][x]]]]

\* every tile's Tile.setTacticalMode2(enabled)
tilesSetTacticalMode2(ts, enabled) ==
    [z \in Zs |-> [y \in Ys |-> [x \in Xs |->
        IF ts[z][y][x] # NULL THEN Tile_setTacticalMode2(ts[z][y][x], enabled) ELSE NULL]]]

-----------------------------------------------------------------------------
(* The host's inputs.                                                      *)

\* the heights the calls of Spec place and look at: the ground, the level
\* above it and the highest level
CallZs == {0, 1, maxZ}
InBounds == {c \in (-1 .. column) \X (-1 .. row) \X (-1 .. maxZ + 1) :
                c[1] \in Xs /\ c[2] \in Ys /\ c[3] \in CallZs}
\* one coordinate triple for each bound a call can violate
OutOfBounds == {<<-1, 0, 0>>, <<column, 0, 0>>, <<0, -1, 0>>, <<0, row, 0>>,
                <<0, 0, -1>>, <<0, 0, maxZ + 1>>}
Coords == InBounds \cup OutOfBounds

\* payloads of setTile: the two empty markers, a bare kind, a stair record
\* with facing and attached object, a record of kind 0
TilePayloads == {NullSetter, NumSetter(0), NumSetter(1),
                 ObjSetter(2, undefined, 1, 1),
                 ObjSetter(0, undefined, undefined, undefined)}

\* cells of a setGrid layout: also records that specify a height, one of them
\* above maxZ
CellPayloads == {NullSetter, NumSetter(1),
                 ObjSetter(2, undefined, 1, 1),
                 ObjSetter(2, 1, 1, 1),
                 ObjSetter(1, maxZ + 1, undefined, undefined),
                 ObjSetter(0, undefined, undefined, undefined)}

\* layouts: cell a where x + y is even, cell b elsewhere
Layout(a, b) == [y \in Ys |-> [x \in Xs |-> IF (x + y) % 2 = 0 THEN a ELSE b]]

\* screen points of getTileByIsoPos: three over the overlapping sprites of
\* neighbouring cells and stacked levels, one off the map
PickPoints == {<<512, 288>>, <<500, 270>>, <<530, 250>>, <<0, 0>>}

-----------------------------------------------------------------------------
(* The state machine: one action per call of the grid API.                 *)

manager == [ghostCubes |-> ghostCubes, spritePool |-> spritePool, sprites |-> sprites]

Init ==
    /\ tiles = EmptyTiles
    /\ direction = North
    /\ isMode2Active = FALSE
    /\ ghostCubes = EmptyGhosts
    /\ spritePool = <<>>
    /\ sprites = <<>>
    /\ call = [op |-> "new"]
    /\ ret = NULL
    /\ steps = 0

\* grid.setTile(x, y, z, tile)
SetTile ==
    \E c \in Coords, tile \in TilePayloads :
        /\ steps < MaxSteps
        /\ tiles' = setTile(tiles, c[1], c[2], c[3], tile, direction)
        /\ call' = [op |-> "setTile", x |-> c[1], y |-> c[2], z |-> c[3], tile |-> tile]
        /\ ret' = NULL
        /\ steps' = steps + 1
        /\ UNCHANGED <<direction, isMode2Active, ghostCubes, spritePool, sprites>>

\* grid.setGrid(layout)
SetGrid ==
    \E a \in CellPayloads, b \in CellPayloads :
        /\ steps < MaxSteps
        /\ tiles' = setGrid(tiles, Layout(a, b), direction)
        /\ call' = [op |-> "setGrid", tiles |-> Layout(a, b)]
        /\ ret' = NULL
        /\ steps' = steps + 1
        /\ UNCHANGED <<direction, isMode2Active, ghostCubes, spritePool, sprites>>

\* grid.getTile(x, y, z) and grid.getTile(x, y)
GetTile ==
    \E c \in Coords, withZ \in BOOLEAN :
        LET z == IF withZ THEN c[3] ELSE undefined
        IN  /\ steps < MaxSteps
            /\ (~withZ => c[3] = 0)
            /\ ret' = getTile(tiles, c[1], c[2], z)
            /\ call' = [op |-> "getTile", x |-> c[1], y |-> c[2], z |-> z]
            /\ steps' = steps + 1
            /\ UNCHANGED <<tiles, direction, isMode2Active, ghostCubes, spritePool, sprites>>

\* grid.getTileByIsoPos(x, y)
GetTileByIsoPos ==
    \E p \in PickPoints :
        /\ steps < MaxSteps
        /\ ret' = getTileByIsoPos(tiles, p[1], p[2])
        /\ call' = [op |-> "getTileByIsoPos", x |-> p[1], y |-> p[2]]
        /\ steps' = steps + 1
        /\ UNCHANGED <<tiles, direction, isMode2Active, ghostCubes, spritePool, sprites>>

\* grid.updateDirection(dir)
UpdateDirection ==
    \E dir \in Directions :
        LET m == IF isMode2Active THEN updateGhostCubesPositions(manager, dir) ELSE manager
        IN  /\ steps < MaxSteps
            /\ direction' = dir
            /\ tiles' = IF direction = dir THEN tiles ELSE updateTiles(tiles, dir)
            /\ sprites' = IF direction = dir THEN sprites ELSE m.sprites
            /\ call' = [op |-> "updateDirection", dir |-> dir]
            /\ ret' = NULL
            /\ steps' = steps + 1
            /\ UNCHANGED <<isMode2Active, ghostCubes, spritePool>>

\* grid.setTacticalMode2(enabled)
SetTacticalMode2 ==
    \E enabled \in BOOLEAN :
        LET m == IF enabled
                 THEN createGhostCubes(manager, markTopCubes(tiles), direction)
                 ELSE removeGhostCubes(manager)
        IN  /\ steps < MaxSteps
            /\ isMode2Active' = enabled
            /\ tiles' = tilesSetTacticalMode2(IF enabled THEN markTopCubes(tiles) ELSE tiles,
                                              enabled)
            /\ ghostCubes' = m.ghostCubes
            /\ spritePool' = m.spritePool
            /\ sprites' = m.sprites
            /\ call' = [op |-> "setTacticalMode2", enabled |-> enabled]
            /\ ret' = NULL
            /\ steps' = steps + 1
            /\ UNCHANGED direction

Next ==
    \/ SetTile
    \/ SetGrid
    \/ GetTile
    \/ GetTileByIsoPos
    \/ UpdateDirection
    \/ SetTacticalMode2

Spec == Init /\ [][Next]_vars

-----------------------------------------------------------------------------
(* The overlay specifications: longer behaviours over fewer inputs, for    *)
(* what repeated toggling, stacking under the overlay and rotating do.     *)

\* number of API calls in a behaviour of the overlay specifications
MaxOverlaySteps == 5

\* setTile on every height of column (0, 0) and on the ground of column (1, 0)
OverlayCoords == {<<0, 0, z>> : z \in Zs} \cup {<<1, 0, 0>>}
\* an empty marker and a bare kind
OverlayPayloads == {NullSetter, NumSetter(1)}
\* the overlay specifications rotate to every view direction
OverlayDirections == Directions

\* grid.setTile(x, y, z, tile)
OverlaySetTile ==
    \E c \in OverlayCoords, tile \in OverlayPayloads :
        /\ steps < MaxOverlaySteps
        /\ tiles' = setTile(tiles, c[1], c[2], c[3], tile, direction)
        /\ call' = [op |-> "setTile", x |-> c[1], y |-> c[2], z |-> c[3], tile |-> tile]
        /\ ret' = NULL
        /\ steps' = steps + 1
        /\ UNCHANGED <<direction, isMode2Active, ghostCubes, spritePool, sprites>>

\* grid.updateDirection(dir)
OverlayUpdateDirection ==
    \E dir \in OverlayDirections :
        LET m == IF isMode2Active THEN updateGhostCubesPositions(manager, dir) ELSE manager
        IN  /\ steps < MaxOverlaySteps
            /\ direction' = dir
            /\ tiles' = IF direction = dir THEN tiles ELSE updateTiles(tiles, dir)
            /\ sprites' = IF direction = dir THEN sprites ELSE m.sprites
            /\ call' = [op |-> "updateDirection", dir |-> dir]
            /\ ret' = NULL
            /\ steps' = steps + 1
            /\ UNCHANGED <<isMode2Active, ghostCubes, spritePool>>

\* grid.setTacticalMode2(enabled)
OverlaySetTacticalMode2 ==
    \E enabled \in BOOLEAN :
        LET m == IF enabled
                 THEN createGhostCubes(manager, markTopCubes(tiles), direction)
                 ELSE removeGhostCubes(manager)
        IN  /\ steps < MaxOverlaySteps
            /\ isMode2Active' = enabled
            /\ tiles' = tilesSetTacticalMode2(IF enabled THEN markTopCubes(tiles) ELSE tiles,
                                              enabled)
            /\ ghostCubes' = m.ghostCubes
            /\ spritePool' = m.spritePool
            /\ sprites' = m.sprites
            /\ call' = [op |-> "setTacticalMode2", enabled |-> enabled]
            /\ ret' = NULL
            /\ steps' = steps + 1
            /\ UNCHANGED direction

OverlayNext ==
    \/ OverlaySetTile
    \/ OverlayUpdateDirection
    \/ OverlaySetTacticalMode2

OverlaySpec == Init /\ [][OverlayNext]_vars

-----------------------------------------------------------------------------
(* The pool at its capacity. The pool fills up only while removeGhostCubes *)
(* releases more than maxPoolSize ghosts, which takes a grid of more than  *)
(* maxPoolSize empty slots (the default grid has 10 x 10 x 9). PoolSpec    *)
(* follows the pool and the handles alone, one returnToPool or             *)
(* getPooledSprite at a time, from the states such a release loop passes   *)
(* through: a pool that is empty, one short of full or full, and a few     *)
(* ghosts still to release.                                                *)

MaxPoolActive == 3
MaxPoolSteps == 4

PoolFills == {0, maxPoolSize - 1, maxPoolSize}

\* the sprites of sp in use as ghosts: visible and not destroyed
ActiveIn(sp) == {id \in DOMAIN sp : sp[id].visible /\ ~sp[id].destroyed}

\* a ghost as createGhostCubes leaves it, and as returnToPool hides it
ActiveGhost ==
    [x |-> 0, y |-> 0, depth2 |-> 0, visible |-> TRUE,
     alpha |-> GHOST_ALPHA, tint |-> GHOST_TINT, destroyed |-> FALSE]
PooledGhost == [ActiveGhost EXCEPT !.visible = FALSE]

PoolInit ==
    \E fill \in PoolFills, active \in 1 .. MaxPoolActive :
        /\ tiles = EmptyTiles
        /\ direction = North
        /\ isMode2Active = TRUE
        /\ ghostCubes = EmptyGhosts
        /\ spritePool = [i \in 1 .. fill |-> i]
        /\ sprites = [i \in 1 .. fill + active |->
                         IF i <= fill THEN PooledGhost ELSE ActiveGhost]
        /\ call = [op |-> "new"]
        /\ ret = NULL
        /\ steps = 0

\* this.returnToPool(ghost), for a ghost in use
PoolRelease ==
    \E id \in ActiveIn(sprites) :
        LET m == returnToPool(manager, id)
        IN  /\ steps < MaxPoolSteps
            /\ spritePool' = m.spritePool
            /\ sprites' = m.sprites
            /\ call' = [op |-> "returnToPool", sprite |-> id]
            /\ ret' = NULL
            /\ steps' = steps + 1
            /\ UNCHANGED <<tiles, direction, isMode2Active, ghostCubes>>

\* this.getPooledSprite()
PoolAcquire ==
    LET got == getPooledSprite(manager)
    IN  /\ steps < MaxPoolSteps
        /\ spritePool' = got.m.spritePool
        /\ sprites' = got.m.sprites
        /\ call' = [op |-> "getPooledSprite"]
        /\ ret' = [id |-> got.id]
        /\ steps' = steps + 1
        /\ UNCHANGED <<tiles, direction, isMode2Active, ghostCubes>>

PoolNext ==
    \/ PoolRelease
    \/ PoolAcquire

PoolSpec == PoolInit /\ [][PoolNext]_vars

-----------------------------------------------------------------------------
(* Placements of tiles of every facing.  FrameSpec places bare kinds and   *)
(* records of the plain kind and of the stair kind, without a facing and   *)
(* with each of the four, on three slots, and turns the view.              *)

MaxFrameSteps == 3

FrameCoords == {<<0, 0, 0>>, <<0, 0, 1>>, <<1, 1, 0>>}
FrameFacings == {undefined, 0, 1, 2, 3}
FramePayloads ==
    {NullSetter, NumSetter(1)}
    \cup {ObjSetter(id, undefined, undefined, d) : id \in {1, STAIR_ID}, d \in FrameFacings}

\* grid.setTile(x, y, z, tile)
FrameSetTile ==
    \E c \in FrameCoords, tile \in FramePayloads :
        /\ steps < MaxFrameSteps
        /\ tiles' = setTile(tiles, c[1], c[2], c[3], tile, direction)
        /\ call' = [op |-> "setTile", x |-> c[1], y |-> c[2], z |-> c[3], tile |-> tile]
        /\ ret' = NULL
        /\ steps' = steps + 1
        /\ UNCHANGED <<direction, isMode2Active, ghostCubes, spritePool, sprites>>

\* grid.updateDirection(dir)
FrameUpdateDirection ==
    \E dir \in Directions :
        LET m == IF isMode2Active THEN updateGhostCubesPositions(manager, dir) ELSE manager
        IN  /\ steps < MaxFrameSteps
            /\ direction' = dir
            /\ tiles' = IF direction = dir THEN tiles ELSE updateTiles(tiles, dir)
            /\ sprites' = IF direction = dir THEN sprites ELSE m.sprites
            /\ call' = [op |-> "updateDirection", dir |-> dir]
            /\ ret' = NULL
            /\ steps' = steps + 1
            /\ UNCHANGED <<isMode2Active, ghostCubes, spritePool>>

FrameNext ==
    \/ FrameSetTile
    \/ FrameUpdateDirection

FrameSpec == Init /\ [][FrameNext]_vars

-----------------------------------------------------------------------------
(* The two overlays and the highlight.  TintSpec builds one column up to   *)
(* three cubes high, toggles the z-tint overlay and the x-ray overlay and  *)
(* highlights tiles of the column.                                         *)

MaxTintSteps == 5

TintCoords == {<<0, 0, 0>>, <<0, 0, 2>>}
TintPayloads == {NullSetter, NumSetter(1)}
TintTargets == {<<0, 0, 0>>, <<0, 0, 1>>, <<0, 0, 2>>}

\* grid.setTile(x, y, z, tile)
TintSetTile ==
    \E c \in TintCoords, tile \in TintPayloads :
        /\ steps < MaxTintSteps
        /\ tiles' = setTile(tiles, c[1], c[2], c[3], tile, direction)
        /\ call' = [op |-> "setTile", x |-> c[1], y |-> c[2], z |-> c[3], tile |-> tile]
        /\ ret' = NULL
        /\ steps' = steps + 1
        /\ UNCHANGED <<direction, isMode2Active, ghostCubes, spritePool, sprites>>

\* grid.setTacticalMode(enabled)
TintSetTacticalMode ==
    \E enabled \in BOOLEAN :
        /\ steps < MaxTintSteps
        /\ tiles' = tilesSetTacticalMode(tiles, enabled, direction)
        /\ call' = [op |-> "setTacticalMode", enabled |-> enabled]
        /\ ret' = NULL
        /\ steps' = steps + 1
        /\ UNCHANGED <<direction, isMode2Active, ghostCubes, spritePool, sprites>>

\* grid.setTacticalMode2(enabled)
TintSetTacticalMode2 ==
    \E enabled \in BOOLEAN :
        LET m == IF enabled
                 THEN createGhostCubes(manager, markTopCubes(tiles), direction)
                 ELSE removeGhostCubes(manager)
        IN  /\ steps < MaxTintSteps
            /\ isMode2Active' = enabled
            /\ tiles' = tilesSetTacticalMode2(IF enabled THEN markTopCubes(tiles) ELSE tiles,
                                              enabled)
            /\ ghostCubes' = m.ghostCubes
            /\ spritePool' = m.spritePool
            /\ sprites' = m.sprites
            /\ call' = [op |-> "setTacticalMode2", enabled |-> enabled]
            /\ ret' = NULL
            /\ steps' = steps + 1
            /\ UNCHANGED direction

\* grid.getTile(x, y, z).setHighlighted(on), for a slot that holds a tile
TintSetHighlighted ==
    \E c \in TintTargets, on \in BOOLEAN :
        /\ steps < MaxTintSteps
        /\ tiles[c[3]][c[2]][c[1]] # NULL
        /\ tiles' = [tiles EXCEPT ![c[3]][c[2]][c[1]] = Tile_setHighlighted(@, on)]
        /\ call' = [op |-> "setHighlighted", x |-> c[1], y |-> c[2], z |-> c[3], on |-> on]
        /\ ret' = NULL
        /\ steps' = steps + 1
        /\ UNCHANGED <<direction, isMode2Active, ghostCubes, spritePool, sprites>>

TintNext ==
    \/ TintSetTile
    \/ TintSetTacticalMode
    \/ TintSetTacticalMode2
    \/ TintSetHighlighted

TintSpec == Init /\ [][TintNext]_vars

-----------------------------------------------------------------------------
(* The overlays over a grid that does not change.  ToggleSpec starts from  *)
(* a grid that holds one column, built with setTile, toggles the two       *)
(* overlays and picks tiles by screen points.                              *)

MaxToggleSteps == 5

ToggleHeights == {0, 1, 2}

ToggleInit ==
    \E h \in ToggleHeights :
        /\ tiles = setTile(EmptyTiles, 0, 0, h, NumSetter(1), North)
        /\ direction = North
        /\ isMode2Active = FALSE
        /\ ghostCubes = EmptyGhosts
        /\ spritePool = <<>>
        /\ sprites = <<>>
        /\ call = [op |-> "setTile", x |-> 0, y |-> 0, z |-> h, tile |-> NumSetter(1)]
        /\ ret = NULL
        /\ steps = 0

\* grid.setTacticalMode(enabled)
ToggleSetTacticalMode ==
    \E enabled \in BOOLEAN :
        /\ steps < MaxToggleSteps
        /\ tiles' = tilesSetTacticalMode(tiles, enabled, direction)
        /\ call' = [op |-> "setTacticalMode", enabled |-> enabled]
        /\ ret' = NULL
        /\ steps' = steps + 1
        /\ UNCHANGED <<direction, isMode2Active, ghostCubes, spritePool, sprites>>

\* grid.setTacticalMode2(enabled)
ToggleSetTacticalMode2 ==
    \E enabled \in BOOLEAN :
        LET m == IF enabled
                 THEN createGhostCubes(manager, markTopCubes(tiles), direction)
                 ELSE removeGhostCubes(manager)
        IN  /\ steps < MaxToggleSteps
            /\ isMode2Active' = enabled
            /\ tiles' = tilesSetTacticalMode2(IF enabled THEN markTopCubes(tiles) ELSE tiles,
                                              enabled)
            /\ ghostCubes' = m.ghostCubes
            /\ spritePool' = m.spritePool
            /\ sprites' = m.sprites
            /\ call' = [op |-> "setTacticalMode2", enabled |-> enabled]
            /\ ret' = NULL
            /\ steps' = steps + 1
            /\ UNCHANGED direction

\* grid.getTileByIsoPos(x, y): the points of Spec and one over the lower
\* edge of the ground cube of column (0, 0), below the sprites of the cubes
\* stacked on it
ToggleGetTileByIsoPos ==
    \E p \in PickPoints \cup {<<512, 310>>} :
        /\ steps < MaxToggleSteps
        /\ ret' = getTileByIsoPos(tiles, p[1], p[2])
        /\ call' = [op |-> "getTileByIsoPos", x |-> p[1], y |-> p[2]]
        /\ steps' = steps + 1
        /\ UNCHANGED <<tiles, direction, isMode2Active, ghostCubes, spritePool, sprites>>

ToggleNext ==
    \/ ToggleSetTacticalMode
    \/ ToggleSetTacticalMode2
    \/ ToggleGetTileByIsoPos

ToggleSpec == ToggleInit /\ [][ToggleNext]_vars

-----------------------------------------------------------------------------
(* The functions of the engine that do not depend on the grid's tiles.     *)
(* FunctionSpec calls each of them once on an argument of a bounded set:   *)
(* call holds the arguments and ret the result.                            *)

MaxCalls == 1

\* DEFAULT_CONFIG
DEFAULT_CONFIG ==
    [width |-> 64, height |-> 64, column |-> 10, row |-> 10,
     offsetX |-> 512, offsetY |-> 288, offsetZ |-> 32, maxZ |-> 8]

ConfigFields == DOMAIN DEFAULT_CONFIG

\* a field that a Partial<GridConfig> does not supply
absent == -3

\* validateConfig(config)
validateConfig(config) ==
    LET merged == [f \in ConfigFields |->
                      IF config[f] = absent THEN DEFAULT_CONFIG[f] ELSE config[f]]
        badSize == merged.width <= 0 \/ merged.height <= 0
        badGrid == merged.column <= 0 \/ merged.row <= 0
    IN  [merged EXCEPT !.width = IF badSize THEN DEFAULT_CONFIG.width ELSE @,
                       !.height = IF badSize THEN DEFAULT_CONFIG.height ELSE @,
                       !.column = IF badGrid THEN DEFAULT_CONFIG.column ELSE @,
                       !.row = IF badGrid THEN DEFAULT_CONFIG.row ELSE @,
                       !.maxZ = IF @ < 0 \/ @ > 100 THEN DEFAULT_CONFIG.maxZ ELSE @]

\* partial configurations: every field absent, valid or invalid
PartialConfigs ==
    [width : {absent, 32, 0}, height : {absent, 16, -5},
     column : {absent, 3, 0}, row : {absent, -5},
     offsetX : {absent}, offsetY : {absent, 100},
     offsetZ : {absent, 0}, maxZ : {absent, 0, 101}]

\* transformers: the one of coordinate-transformer.test.ts, the grid's own
\* and one that is not square, with odd cell sizes
Transformers ==
    {[width |-> 64, height |-> 64, column |-> 10, row |-> 10],
     coordinateTransformer,
     [width |-> 3, height |-> 5, column |-> 3, row |-> 5]}

\* the cells of a transformer's grid
Cells(tr) == (0 .. tr.column - 1) \X (0 .. tr.row - 1)

\* a length in quarters
Quarters(n) == 4 * n

\* cartesian pairs, heights and offsets of calculateIsoScreenPosition; the
\* level step is positive
ScreenCarts == {<<0, 0>>, <<100, 100>>, <<1, 0>>, <<64, 320>>}
ScreenLevels == 0 .. 8
ScreenOffsets == {<<512, 288, 32>>, <<0, 0, 1>>, <<7, 3, 5>>}

\* transformer.getRenderCartCoords(x, y, direction)
CallGetRenderCartCoords ==
    \E tr \in Transformers, dir \in Directions :
        \E c \in Cells(tr) :
            /\ steps < MaxCalls
            /\ call' = [op |-> "getRenderCartCoords", tr |-> tr,
                        x |-> c[1], y |-> c[2], direction |-> dir]
            /\ ret' = transformer_getRenderCartCoords(tr, c[1], c[2], dir)
            /\ steps' = steps + 1
            /\ UNCHANGED <<tiles, direction, isMode2Active, ghostCubes, spritePool, sprites>>

\* iso2cart(...cart2iso(...transformer.getRenderCartCoords(x, y, direction))),
\* lengths in quarters
CallIso2cart ==
    \E tr \in Transformers, dir \in Directions :
        \E c \in Cells(tr) :
            LET cart == transformer_getRenderCartCoords(tr, c[1], c[2], dir)
                iso == cart2iso(Quarters(cart[1]), Quarters(cart[2]))
            IN  /\ steps < MaxCalls
                /\ call' = [op |-> "iso2cart", tr |-> tr,
                            x |-> c[1], y |-> c[2], direction |-> dir, iso |-> iso]
                /\ ret' = iso2cart(iso[1], iso[2])
                /\ steps' = steps + 1
                /\ UNCHANGED <<tiles, direction, isMode2Active, ghostCubes, spritePool, sprites>>

\* calculateIsoScreenPosition(cartX, cartY, z, offsetX, offsetY, offsetZ),
\* lengths in quarters
CallCalculateIsoScreenPosition ==
    \E cart \in ScreenCarts, z \in ScreenLevels, off \in ScreenOffsets :
        /\ steps < MaxCalls
        /\ call' = [op |-> "calculateIsoScreenPosition", cart |-> cart, z |-> z, off |-> off]
        /\ ret' = calculateIsoScreenPosition(Quarters(cart[1]), Quarters(cart[2]), z,
                      Quarters(off[1]), Quarters(off[2]), Quarters(off[3]))
        /\ steps' = steps + 1
        /\ UNCHANGED <<tiles, direction, isMode2Active, ghostCubes, spritePool, sprites>>

\* validateConfig(config)
CallValidateConfig ==
    \E config \in PartialConfigs :
        /\ steps < MaxCalls
        /\ call' = [op |-> "validateConfig", config |-> config]
        /\ ret' = validateConfig(config)
        /\ steps' = steps + 1
        /\ UNCHANGED <<tiles, direction, isMode2Active, ghostCubes, spritePool, sprites>>

\* new Grid(scene, config) looking towards dir: the sprite of the tile that
\* grid.setTile(x, y, z, 1) places at (x, y, z), as Tile positions it with the
\* Grid statics, and the ghost that createGhostCubes places at the same slot
\* while it is empty, with the offsets of the validated configuration.  The
\* configurations supply offsets; the cell size and the grid size are the
\* ones of the grid's transformer, which tile and manager share.
CallCreateGhostCubes ==
    \E ox \in {absent, 0}, oy \in {absent, 100}, oz \in {absent, 16}, dir \in {North, East} :
        \E x \in Xs, y \in Ys, z \in {0, maxZ} :
            LET partial == [[f \in ConfigFields |-> absent]
                               EXCEPT !.offsetX = ox, !.offsetY = oy, !.offsetZ = oz]
                config == validateConfig(partial)
                c == getRenderCartCoords(x, y, dir)
                s == calculateIsoScreenPosition(c[1], c[2], z,
                         config.offsetX, config.offsetY, config.offsetZ)
                tile == setTile(EmptyTiles, x, y, z, NumSetter(1), dir)[z][y][x]
            IN  /\ steps < MaxCalls
                /\ call' = [op |-> "createGhostCubes", config |-> partial,
                            x |-> x, y |-> y, z |-> z, direction |-> dir]
                /\ ret' = [ghost |-> [x |-> s[1], y |-> s[2],
                                      depth2 |-> (2 * (c[1] + c[2] + config.offsetZ * z))
                                                 + GHOST_DEPTH_OFFSET2],
                           tile |-> [x |-> tile.sprite.x, y |-> tile.sprite.y,
                                     depth |-> tile.sprite.depth]]
                /\ steps' = steps + 1
                /\ UNCHANGED <<tiles, direction, isMode2Active, ghostCubes, spritePool, sprites>>

FunctionNext ==
    \/ CallGetRenderCartCoords
    \/ CallIso2cart
    \/ CallCalculateIsoScreenPosition
    \/ CallValidateConfig
    \/ CallCreateGhostCubes

FunctionSpec == Init /\ [][FunctionNext]_vars

-----------------------------------------------------------------------------
(* A rendering backend that fails.  In every call of FaultSpec the backend *)
(* throws for one cell: in setGrid at the texture binds of the tiles of a  *)
(* cell, in setTacticalMode at the tint of the tile of a slot.             *)

MaxFaultSteps == 2

\* grid.setGrid(layout), the texture binds of cell `fault` throwing
FaultSetGrid ==
    \E a \in {NullSetter, NumSetter(1), ObjSetter(STAIR_ID, 1, 1, 1)},
       b \in {NullSetter, NumSetter(1), ObjSetter(STAIR_ID, 1, 1, 1)},
       fault \in Xs \X Ys :
        /\ steps < MaxFaultSteps
        /\ tiles' = setGrid_faulty(tiles, Layout(a, b), direction, fault)
        /\ call' = [op |-> "setGrid", tiles |-> Layout(a, b), fault |-> fault]
        /\ ret' = NULL
        /\ steps' = steps + 1
        /\ UNCHANGED <<direction, isMode2Active, ghostCubes, spritePool, sprites>>

\* grid.setTacticalMode(enabled), the sprite of the tile at `fault` throwing
FaultSetTacticalMode ==
    \E enabled \in BOOLEAN, fault \in Xs \X Ys \X {0, 1} :
        /\ steps < MaxFaultSteps
        /\ tiles' = tilesSetTacticalMode_faulty(tiles, enabled, direction, fault)
        /\ call' = [op |-> "setTacticalMode", enabled |-> enabled, fault |-> fault]
        /\ ret' = NULL
        /\ steps' = steps + 1
        /\ UNCHANGED <<direction, isMode2Active, ghostCubes, spritePool, sprites>>

FaultNext ==
    \/ FaultSetGrid
    \/ FaultSetTacticalMode

FaultSpec == Init /\ [][FaultNext]_vars

-----------------------------------------------------------------------------
(* Properties of the stack.                                                *)

Occupied(ts, x, y, z) == ts[z][y][x] # NULL

\* column (x, y) is occupied at exactly the heights 0..h (h = -1: it is empty)
ColumnIs(ts, x, y, h) == \A zz \in Zs : Occupied(ts, x, y, zz) <=> zz <= h

\* the last call was setTile with in-bounds coordinates
PlacedInBounds ==
    /\ call.op = "setTile"
    /\ call.x \in Xs /\ call.y \in Ys /\ call.z \in Zs

\* the tile kind a payload carries (0 for the empty markers)
KindOf(tile) ==
    IF tile.t = "object" THEN tile.id ELSE IF tile.t = "number" THEN tile.n ELSE 0

\* C1: stack contiguity.  After every call, in every column, a slot occupied
\* at height h has every slot at the heights 0..h-1 occupied.
C1_Contiguity ==
    \A x \in Xs, y \in Ys, h \in Zs :
        Occupied(tiles, x, y, h) => \A l \in 0 .. h - 1 : Occupied(tiles, x, y, l)

\* C1 witness: a placement at height >= 1 has just filled a column from the ground
C1_Witness ==
    /\ PlacedInBounds /\ ~Falsy(call.tile) /\ call.z >= 1
    /\ Occupied(tiles, call.x, call.y, call.z)
    /\ Occupied(tiles, call.x, call.y, 0)

\* what C2 says of the column after setTile(x, y, z, tile)
PlacedColumn ==
    /\ ColumnIs(tiles, call.x, call.y, call.z)
    /\ LET t == tiles[call.z][call.y][call.x]
       IN  /\ t # NULL
           /\ t.tileId = KindOf(call.tile)
           /\ call.tile.t = "object" =>
                 /\ t.tileDirection = Coalesce(call.tile.direction, null)
                 /\ t.object = Coalesce(call.tile.object, null)

C3_RemoveFrame ==
    [][ (call'.op = "setTile" /\ inBounds(call'.x, call'.y, call'.z) /\ Falsy(call'.tile))
        => \A x \in Xs, y \in Ys, zz \in Zs :
               IF x = call'.x /\ y = call'.y /\ zz >= call'.z
               THEN tiles'[zz][y][x] = NULL
               ELSE tiles'[zz][y][x] = tiles[zz][y][x] ]_vars

\* C3 witness: a removal above the ground that left the cube below it and a
\* cube of another column in place
C3_Witness ==
    /\ PlacedInBounds /\ Falsy(call.tile) /\ call.z >= 1
    /\ Occupied(tiles, call.x, call.y, call.z - 1)
    /\ ~Occupied(tiles, call.x, call.y, call.z)
    /\ \E x \in Xs, y \in Ys : <<x, y>> # <<call.x, call.y>> /\ Occupied(tiles, x, y, 1)

\* C4: setTile with a coordinate out of bounds changes nothing, whatever the
\* payload: every slot, the view direction and the overlay state stay.
C4_OutOfBoundsNoOp ==
    [][ (call'.op = "setTile" /\ ~(call'.x \in Xs /\ call'.y \in Ys /\ call'.z \in Zs))
        => UNCHANGED <<tiles, direction, isMode2Active, ghostCubes, spritePool, sprites>> ]_vars

\* C4 witness: an out-of-bounds call on a grid that holds cubes, overlay active
C4_Witness ==
    /\ call.op = "setTile"
    /\ ~(call.x \in Xs /\ call.y \in Ys /\ call.z \in Zs)
    /\ call.z < 0
    /\ isMode2Active
    /\ \E x \in Xs, y \in Ys : Occupied(tiles, x, y, 0)

\* the height a cell of a setGrid layout asks for: its z, or 0 when it has none
CellHeight(cell) ==
    IF cell.t = "object" /\ cell.z # undefined /\ cell.z # null THEN cell.z ELSE 0

\* C5 as stated: after setGrid(cells), a column whose cell is the empty marker
\* is empty and every other column is occupied at exactly the heights 0..h,
\* h the cell's height or 0 when it gives none.
C5_Original ==
    call.op = "setGrid" =>
        \A x \in Xs, y \in Ys :
            IF Falsy(call.tiles[y][x])
            THEN ColumnIs(tiles, x, y, -1)
            ELSE ColumnIs(tiles, x, y, CellHeight(call.tiles[y][x]))

\* C5 amended: after setGrid(cells) the occupancy is a function of cells alone:
\* a column is empty when its cell is the empty marker, a record of tile kind 0
\* or a record whose height lies outside 0..maxZ, and is otherwise occupied at
\* exactly the heights 0..h.
C5_BulkLoad ==
    call.op = "setGrid" =>
        \A x \in Xs, y \in Ys :
            LET cell == call.tiles[y][x]
            IN  IF Falsy(cell) \/ KindOf(cell) = 0 \/ CellHeight(cell) \notin Zs
                THEN ColumnIs(tiles, x, y, -1)
                ELSE ColumnIs(tiles, x, y, CellHeight(cell))

\* C5 witness: a layout loaded over earlier calls, with an empty-marker cell,
\* a cell of height 1 and a bare kind side by side
C5_Witness ==
    /\ call.op = "setGrid" /\ steps >= 2
    /\ \E x \in Xs, y \in Ys : Falsy(call.tiles[y][x]) /\ ColumnIs(tiles, x, y, -1)
    /\ \E x \in Xs, y \in Ys : CellHeight(call.tiles[y][x]) = 1 /\ ColumnIs(tiles, x, y, 1)

\* the greatest occupied height of a non-empty column
Highest(ts, x, y) ==
    CHOOSE h \in Zs : Occupied(ts, x, y, h) /\ \A w \in Zs : Occupied(ts, x, y, w) => w <= h

NonEmpty(ts, x, y) == \E h \in Zs : Occupied(ts, x, y, h)

\* C6: getTile(x, y, z) returns the tile of slot (x, y, z) or nothing when it
\* is empty; getTile(x, y) returns the occupied slot of greatest height of the
\* column or nothing when the column is empty; out of bounds, nothing.
C6_Lookup ==
    call.op = "getTile" =>
        IF ~(call.x \in Xs /\ call.y \in Ys) THEN ret = NULL
        ELSE IF call.z # undefined
        THEN (IF call.z \in Zs THEN ret = tiles[call.z][call.y][call.x] ELSE ret = NULL)
        ELSE IF NonEmpty(tiles, call.x, call.y)
        THEN ret = tiles[Highest(tiles, call.x, call.y)][call.y][call.x]
        ELSE ret = NULL

\* C6 witness: a lookup without z that returned the top of a stack of two or more
C6_Witness ==
    /\ call.op = "getTile" /\ call.z = undefined
    /\ ret # NULL /\ ret.z >= 1
    /\ Occupied(tiles, call.x, call.y, 0)

\* the slots whose tile contains the screen point of the last pick
Hits ==
    {c \in Xs \X Ys \X Zs :
        /\ Occupied(tiles, c[1], c[2], c[3])
        /\ containsPoint(tiles[c[3]][c[2]][c[1]], call.x, call.y)}

\* C7: getTileByIsoPos(p) returns a tile that contains p and whose height is
\* the greatest among the occupied tiles containing p; it returns nothing
\* exactly when no occupied tile contains p.
C7_PickTopmost ==
    call.op = "getTileByIsoPos" =>
        IF Hits = {} THEN ret = NULL
        ELSE /\ ret # NULL
             /\ <<ret.x, ret.y, ret.z>> \in Hits
             /\ ret = tiles[ret.z][ret.y][ret.x]
             /\ \A c \in Hits : c[3] <= ret.z

\* C7 witness: a pick over a stack: the point is also inside a lower tile
C7_Witness ==
    /\ call.op = "getTileByIsoPos" /\ ret # NULL
    /\ \E c \in Hits : c[3] < ret.z

\* C8: among the tiles of the greatest height that contain the point, the
\* pick is the first in row-major order (smallest y, then smallest x),
\* whatever the depths of the tiles and the view direction.
C8_PickScanOrder ==
    (call.op = "getTileByIsoPos" /\ ret # NULL) =>
        \A c \in Hits :
            c[3] = ret.z => (ret.y < c[2] \/ (ret.y = c[2] /\ ret.x <= c[1]))

\* C8 witness: a tie in a rotated view, where another tile of the same height
\* under the point has the greater depth
C8_Witness ==
    /\ call.op = "getTileByIsoPos" /\ ret # NULL /\ direction # North
    /\ \E c \in Hits :
          /\ c[3] = ret.z /\ <<c[1], c[2]>> # <<ret.x, ret.y>>
          /\ tiles[c[3]][c[2]][c[1]].sprite.depth > ret.sprite.depth

\* the heights of column (x, y) whose tile is flagged as top cube
Tops(ts, x, y) == {z \in Zs : Occupied(ts, x, y, z) /\ ts[z][y][x].isTopCube}

\* C9: right after setTacticalMode2(true), every non-empty column has exactly
\* one tile flagged isTopCube, its highest; an empty column has none.
C9_TopAfterEnable ==
    (call.op = "setTacticalMode2" /\ call.enabled) =>
        \A x \in Xs, y \in Ys :
            IF NonEmpty(tiles, x, y)
            THEN Tops(tiles, x, y) = {Highest(tiles, x, y)}
            ELSE Tops(tiles, x, y) = {}

\* C9 witness: the overlay enabled on a grid with a stack of two and an empty column
C9_Witness ==
    /\ call.op = "setTacticalMode2" /\ call.enabled
    /\ \E x \in Xs, y \in Ys : Occupied(tiles, x, y, 1) /\ ~tiles[0][y][x].isTopCube
    /\ \E x \in Xs, y \in Ys : ~NonEmpty(tiles, x, y)

\* C10: while the x-ray overlay is active, in every reachable state, isTopCube
\* is true for exactly the highest occupied slot of each non-empty column and
\* false for every other tile.
C10_TopWhileActive ==
    isMode2Active =>
        \A x \in Xs, y \in Ys, z \in Zs :
            Occupied(tiles, x, y, z) =>
                (tiles[z][y][x].isTopCube <=> z = Highest(tiles, x, y))

-----------------------------------------------------------------------------
(* Properties of the x-ray overlay.                                        *)

\* the last call was setTacticalMode2(true)
JustEnabled == call.op = "setTacticalMode2" /\ call.enabled

\* the last call was setTacticalMode2(false)
JustDisabled == call.op = "setTacticalMode2" /\ ~call.enabled

\* the occupied slots
OccupiedSlots == {c \in Xs \X Ys \X Zs : Occupied(tiles, c[1], c[2], c[3])}

TilesAfterMode2(ts, enabled) ==
    tilesSetTacticalMode2(IF enabled THEN markTopCubes(ts) ELSE ts, enabled)

\* C12: with the overlay off, setTacticalMode2(true) followed at once by
\* setTacticalMode2(false) leaves every occupied tile's sprite with the
\* visibility and the opacity it has now.
C12_ToggleRestores ==
    ~isMode2Active =>
        LET after == TilesAfterMode2(TilesAfterMode2(tiles, TRUE), FALSE)
        IN  \A c \in OccupiedSlots :
                /\ after[c[3]][c[2]][c[1]].sprite.visible = tiles[c[3]][c[2]][c[1]].sprite.visible
                /\ after[c[3]][c[2]][c[1]].sprite.alpha = tiles[c[3]][c[2]][c[1]].sprite.alpha

\* C13: right after setTacticalMode2(false), whatever toggles and stack
\* changes came before, every tile flagged isTopCube is visible at the opacity
\* it had before the overlay and every other occupied tile is hidden.  A
\* sprite is created at opacity 1.0 and only the overlay changes a sprite's
\* opacity, so the opacity a tile had before the overlay is 100.
C13_DisableRestores ==
    JustDisabled =>
        \A c \in OccupiedSlots :
            LET t == tiles[c[3]][c[2]][c[1]]
            IN  IF t.isTopCube
                THEN t.sprite.visible /\ t.sprite.alpha = 100
                ELSE ~t.sprite.visible

\* the slots of the grid
Slots == Xs \X Ys \X Zs

\* the ghost handle of a slot (NoSprite: none)
GhostAt(c) == ghostCubes[c[3]][c[2]][c[1]]

\* the handles that are active
ActiveHandles == ActiveIn(sprites)

\* the handles held in a pool
Pooled(pool) == {pool[i] : i \in DOMAIN pool}

\* C14: right after setTacticalMode2(true) every unoccupied slot has a ghost
\* handle that is visible and not destroyed, no two slots share a handle, no
\* occupied slot has one, and no handle is active without a slot.
C14_GhostPerEmptySlot ==
    JustEnabled =>
        /\ \A c \in Slots :
              IF Occupied(tiles, c[1], c[2], c[3])
              THEN GhostAt(c) = NoSprite
              ELSE GhostAt(c) \in ActiveHandles
        /\ \A c \in Slots, e \in Slots :
              (c # e /\ GhostAt(c) # NoSprite) => GhostAt(c) # GhostAt(e)
        /\ ActiveHandles = {GhostAt(c) : c \in Slots} \ {NoSprite}

\* C14 witness: the overlay enabled again over a stack placed since the last
\* activation, with handles left over in the pool
C14_Witness ==
    /\ JustEnabled
    /\ Occupied(tiles, 0, 0, 1)
    /\ Len(spritePool) > 0
    /\ GhostAt(<<0, 0, 2>>) # NoSprite

\* C15: setTacticalMode2(false) leaves no ghost handle active: no slot holds a
\* ghost, no handle is visible, and every handle that was active is in the
\* pool or destroyed.
C15_NoGhostAfterDisable ==
    [][ (call'.op = "setTacticalMode2" /\ ~call'.enabled)
        => /\ ghostCubes' = EmptyGhosts
           /\ ActiveIn(sprites') = {}
           /\ \A id \in ActiveHandles :
                 /\ ~sprites'[id].visible
                 /\ id \in Pooled(spritePool') \/ sprites'[id].destroyed ]_vars

\* C15 witness: the overlay disabled over a grid that holds a tile, its ghosts
\* now in the pool
C15_Witness ==
    /\ JustDisabled
    /\ Occupied(tiles, 0, 0, 0)
    /\ Len(spritePool) > 0
    /\ ActiveHandles = {}

\* the number of slots of ts that hold no cube
Unoccupied(ts) == Cardinality({c \in Slots : ~Occupied(ts, c[1], c[2], c[3])})

\* C16: acquiring from a non-empty pool constructs nothing and hands out the
\* handle released last; a handle released below capacity and acquired at once
\* is the same handle; an activation constructs handles only for the slots
\* that exceed the handles constructed so far, so that toggling the overlay
\* over the same grid constructs none.
C16_PoolReuse ==
    [][ /\ Len(spritePool) > 0
           => LET got == getPooledSprite(manager)
              IN  /\ Len(got.m.sprites) = Len(sprites)
                  /\ got.id = spritePool[Len(spritePool)]
        /\ \A g \in ActiveHandles :
              Len(spritePool) < maxPoolSize
              => LET got == getPooledSprite(returnToPool(manager, g))
                 IN  /\ got.id = g
                     /\ Len(got.m.sprites) = Len(sprites)
        /\ (call'.op = "setTacticalMode2" /\ call'.enabled /\ Unoccupied(tiles') <= maxPoolSize)
           => /\ Len(sprites') = IF Unoccupied(tiles') > Len(sprites)
                                THEN Unoccupied(tiles') ELSE Len(sprites)
              /\ Unoccupied(tiles') <= Len(sprites) => Len(sprites') = Len(sprites) ]_vars

\* C16 witness: the overlay enabled again over the empty grid: no handle beyond
\* those of the first activation exists, and the first slot holds the handle
\* that was released last
C16_Witness ==
    /\ JustEnabled
    /\ Len(sprites) = NumSlots
    /\ spritePool = <<>>
    /\ GhostAt(<<0, 0, 0>>) = NumSlots

\* the handles that were destroyed
Destroyed(sp) == {id \in DOMAIN sp : sp[id].destroyed}

\* C17: the pool never holds more than maxPoolSize handles; a handle released
\* into a full pool is destroyed and not pooled; a destroyed handle stays
\* destroyed, is never in the pool and is never the one handed out.
C17_PoolBounded ==
    /\ [](/\ Len(spritePool) <= maxPoolSize
          /\ Pooled(spritePool) \cap Destroyed(sprites) = {}
          /\ call.op = "getPooledSprite" => ret.id \notin Destroyed(sprites))
    /\ [][ /\ (call'.op = "returnToPool" /\ Len(spritePool) >= maxPoolSize)
              => /\ call'.sprite \in Destroyed(sprites')
                 /\ spritePool' = spritePool
           /\ Destroyed(sprites) \subseteq Destroyed(sprites')
           /\ \A id \in Destroyed(sprites) : ~sprites'[id].visible ]_vars

\* C17 witness: a handle is acquired after another was destroyed at a full
\* pool; the pool is one short of full again and the handle handed out is the
\* one pooled last
C17_Witness ==
    /\ call.op = "getPooledSprite"
    /\ Destroyed(sprites) # {}
    /\ Len(spritePool) = maxPoolSize - 1
    /\ ret.id = maxPoolSize

\* C18: updateDirection(d) with d the stored direction changes nothing;
\* otherwise the stored direction is d, every occupied tile stands at the
\* screen position, depth and frame of d, and no slot changes its occupancy,
\* kind, facing or object.
C18_Rotate ==
    [][ call'.op = "updateDirection"
        => IF call'.dir = direction
           THEN UNCHANGED <<tiles, direction, isMode2Active, ghostCubes, spritePool, sprites>>
           ELSE /\ direction' = call'.dir
                /\ \A c \in Slots :
                      LET t == tiles[c[3]][c[2]][c[1]]
                          u == tiles'[c[3]][c[2]][c[1]]
                          cart == getRenderCartCoords(c[1], c[2], call'.dir)
                          s == calculateIsoScreenPosition(cart[1], cart[2], c[3],
                                                          OFFSET_X, OFFSET_Y, OFFSET_Z)
                      IN  /\ (t = NULL) = (u = NULL)
                          /\ t # NULL
                             => /\ u.tileId = t.tileId
                                /\ u.tileDirection = t.tileDirection
                                /\ u.object = t.object
                                /\ <<u.x, u.y, u.z>> = <<t.x, t.y, t.z>>
                          /\ Occupied(tiles, c[1], c[2], c[3])
                             => /\ u.sprite.x = s[1]
                                /\ u.sprite.y = s[2]
                                /\ u.sprite.depth = cart[1] + cart[2] + (OFFSET_Z * c[3])
                                /\ u.sprite.frame = frameIndex(t, call'.dir) ]_vars

\* C18 witness: the view was turned away from North over a cube above the
\* ground that has a facing
C18_Witness ==
    /\ call.op = "updateDirection"
    /\ direction # North
    /\ \E c \in Slots :
          /\ c[3] > 0
          /\ Occupied(tiles, c[1], c[2], c[3])
          /\ tiles[c[3]][c[2]][c[1]].tileDirection # null

\* C19: the draw depth of every occupied tile is cartX + cartY + OFFSET_Z * z
\* for (cartX, cartY) the cartesian coordinates of its slot in the current
\* direction.
C19_DepthFollowsDirection ==
    \A c \in Slots :
        Occupied(tiles, c[1], c[2], c[3])
        => LET cart == getRenderCartCoords(c[1], c[2], direction)
           IN  tiles[c[3]][c[2]][c[1]].sprite.depth = cart[1] + cart[2] + (OFFSET_Z * c[3])

\* C20: while the overlay is active, the ghost of every slot stands at the
\* screen position of the slot in the current direction, at depth
\* cartX + cartY + offsetZ * z - 0.5.
C20_GhostFollowsDirection ==
    isMode2Active
    => \A c \in Slots :
          GhostAt(c) # NoSprite
          => LET cart == getRenderCartCoords(c[1], c[2], direction)
                 s == calculateIsoScreenPosition(cart[1], cart[2], c[3],
                                                 offsetX, offsetY, offsetZ)
                 ghost == sprites[GhostAt(c)]
             IN  /\ ghost.x = s[1]
                 /\ ghost.y = s[2]
                 /\ ghost.depth2 = 2 * (cart[1] + cart[2] + (offsetZ * c[3])) - 1

\* C20 witness: the overlay was enabled looking North and the view then turned
\* away, with a ghost above the ground off the origin
C20_Witness ==
    /\ isMode2Active
    /\ steps = 2
    /\ call.op = "updateDirection"
    /\ direction # North
    /\ GhostAt(<<1, 0, 1>>) # NoSprite

-----------------------------------------------------------------------------
(* Properties of the frames.                                               *)

\* the tile at a slot
TileAt(c) == tiles[c[3]][c[2]][c[1]]

\* C21: every occupied tile shows the frame (facing - view + 4) mod 4 when it
\* is a stair with a facing, (facing + view) mod 4 when it has a facing and is
\* no stair, and the view direction otherwise; the frame is in 0..3.
C21_Frame ==
    \A c \in OccupiedSlots :
        LET t == TileAt(c)
            facing == t.tileDirection
        IN  /\ t.sprite.frame \in 0 .. 3
            /\ t.sprite.frame =
                  IF t.tileId = 2 /\ facing # null THEN (facing - direction + 4) % 4
                  ELSE IF facing # null THEN (facing + direction) % 4
                  ELSE direction

\* C21 witness: the view looks South over a stair facing 1, a plain tile
\* facing 3 and, below the stair, a tile without a facing
C21_Witness ==
    /\ direction = South
    /\ \E c \in OccupiedSlots :
          TileAt(c).tileId = 2 /\ TileAt(c).tileDirection = 1 /\ TileAt(c).sprite.frame = 3
    /\ \E c \in OccupiedSlots :
          TileAt(c).tileId = 1 /\ TileAt(c).tileDirection = 3 /\ TileAt(c).sprite.frame = 1

-----------------------------------------------------------------------------
(* Properties of the z-tint overlay and of the highlight.                  *)

\* the tint state of a sprite that setTint(color) leaves
TintOf(color) == IF color = 16777215 THEN null ELSE color

\* the colour of the palette for height z
PaletteTint(z) == TINT_COLORS[Min(z, Len(TINT_COLORS) - 1) + 1]

\* the tile carries a z-tint and a visible z-label
CarriesZTint(t) ==
    /\ t.tacticalTint # null
    /\ t.zLevelText # NULL
    /\ t.zLevelText.visible

\* C22: right after setTacticalMode(true) every occupied tile is tinted with
\* the colour of the palette for its height and has a visible label "z" + z.
C22_TintAfterEnable ==
    (call.op = "setTacticalMode" /\ call.enabled)
    => \A c \in OccupiedSlots :
          LET t == TileAt(c)
          IN  /\ t.tacticalTint = PaletteTint(c[3])
              /\ t.sprite.tint = TintOf(PaletteTint(c[3]))
              /\ ~t.sprite.tintFill
              /\ t.zLevelText # NULL
              /\ t.zLevelText.visible
              /\ t.zLevelText.text = LabelText(c[3])

\* C23: over a grid that does not change, an occupied tile carries a z-tint
\* and a visible label exactly when the z-tint overlay was last toggled on:
\* none does before the first toggle, all or none do right after a toggle of
\* the z-tint overlay, and a toggle of the x-ray overlay changes it for none.
C23_ModesIndependent ==
    /\ [](/\ call.op = "setTile" => \A c \in OccupiedSlots : ~CarriesZTint(TileAt(c))
          /\ call.op = "setTacticalMode"
             => \A c \in OccupiedSlots : CarriesZTint(TileAt(c)) <=> call.enabled)
    /\ [][ call'.op = "setTacticalMode2"
           => \A c \in OccupiedSlots :
                 CarriesZTint(tiles'[c[3]][c[2]][c[1]]) <=> CarriesZTint(TileAt(c)) ]_vars

\* the tint of the tile when it is not highlighted: its z-tint while the
\* z-tint overlay is active on it, none otherwise
RestTint(t) ==
    IF t.tacticalModeActive /\ t.tacticalTint # null THEN TintOf(t.tacticalTint) ELSE null

\* the tile is not highlighted
Resting(t) == t.sprite.tint = RestTint(t) /\ ~t.sprite.tintFill

\* C24: right after setHighlighted(true) the tile is filled with the highlight
\* colour, or tinted with its z-tint lightened by 30 percent when the z-tint
\* overlay is active on it; and for every tile that is not highlighted,
\* setHighlighted(true) followed by setHighlighted(false) leaves the tint it
\* had: its z-tint if the overlay is active on it, none otherwise.
C24_Highlight ==
    \A c \in OccupiedSlots :
        LET t == TileAt(c)
            off == Tile_setHighlighted(Tile_setHighlighted(t, TRUE), FALSE)
        IN  /\ (call.op = "setHighlighted" /\ call.on /\ c = <<call.x, call.y, call.z>>)
               => IF t.tacticalModeActive /\ t.tacticalTint # null
                  THEN /\ t.sprite.tint = TintOf(lighten(t.tacticalTint, 30))
                       /\ ~t.sprite.tintFill
                  ELSE /\ t.sprite.tint = 16776960
                       /\ t.sprite.tintFill
            /\ Resting(t)
               => /\ off.sprite.tint = t.sprite.tint
                  /\ off.sprite.tintFill = t.sprite.tintFill
                  /\ off.sprite.tint = RestTint(t)

\* C24 witness: the tile at height 1, tinted 0xaaccff by the z-tint overlay,
\* was highlighted and shows 0xddffff
C24_Witness ==
    /\ call.op = "setHighlighted" /\ call.on /\ call.z = 1
    /\ Occupied(tiles, 0, 0, 1)
    /\ TileAt(<<0, 0, 1>>).tacticalModeActive
    /\ TileAt(<<0, 0, 1>>).tacticalTint = 11193599
    /\ TileAt(<<0, 0, 1>>).sprite.tint = 14548991

-----------------------------------------------------------------------------
(* Properties of the coordinate functions and of the configuration.        *)

\* C25: getRenderCartCoords(x, y, d) is (x*width, y*height) for North,
\* (y*width, (column-1-x)*height) for East, ((column-1-x)*width,
\* (row-1-y)*height) for South and ((row-1-y)*width, x*height) for West; on the
\* 10 x 10 grid of 64 x 64 cells, cell (5, 5) maps to (320, 320), (320, 256),
\* (256, 256) and (256, 320).
C25_Project ==
    call.op = "getRenderCartCoords"
    => LET tr == call.tr
           x == call.x
           y == call.y
           d == call.direction
       IN  /\ d = 0 => ret = <<x * tr.width, y * tr.height>>
           /\ d = 1 => ret = <<y * tr.width, (tr.column - 1 - x) * tr.height>>
           /\ d = 2 => ret = <<(tr.column - 1 - x) * tr.width, (tr.row - 1 - y) * tr.height>>
           /\ d = 3 => ret = <<(tr.row - 1 - y) * tr.width, x * tr.height>>
           /\ (tr = [width |-> 64, height |-> 64, column |-> 10, row |-> 10] /\ x = 5 /\ y = 5)
              => ret = <<<<320, 320>>, <<320, 256>>, <<256, 256>>, <<256, 320>>>>[d + 1]

\* C25 witness: cell (2, 1) of the 3 x 5 grid of 3 x 5 cells seen from the
\* West, where the row count and the column count differ
C25_Witness ==
    /\ call.op = "getRenderCartCoords"
    /\ call.tr = [width |-> 3, height |-> 5, column |-> 3, row |-> 5]
    /\ call.x = 2 /\ call.y = 1 /\ call.direction = 3
    /\ ret = <<9, 10>>

\* C26: for every cell and direction, iso2cart of cart2iso of the cartesian
\* pair of the cell is that pair (lengths in quarters).
C26_RoundTrip ==
    call.op = "iso2cart"
    => LET cart == transformer_getRenderCartCoords(call.tr, call.x, call.y, call.direction)
       IN  /\ call.iso = <<Quarters(cart[1]) - Quarters(cart[2]),
                           2 * (cart[1] + cart[2])>>
           /\ ret = <<Quarters(cart[1]), Quarters(cart[2])>>

\* C26 witness: cell (2, 0) of the grid of 3 x 5 cells seen from the North:
\* the pair (6, 0), whose isometric image is (6, 3)
C26_Witness ==
    /\ call.op = "iso2cart"
    /\ call.tr.width = 3
    /\ call.x = 2 /\ call.y = 0 /\ call.direction = 0
    /\ call.iso = <<24, 12>>
    /\ ret = <<24, 0>>

ValidSupplied(config, f) ==
    /\ config[f] # absent
    /\ config[f] > 0
    /\ f = "maxZ" => config[f] <= 100

\* C28: every field of the validated configuration is positive: the value
\* supplied when it is valid, the default otherwise.
C28_ConfigPositive ==
    call.op = "validateConfig"
    => \A f \in ConfigFields :
          /\ ret[f] > 0
          /\ ret[f] = IF ValidSupplied(call.config, f) THEN call.config[f]
                      ELSE DEFAULT_CONFIG[f]

\* C29: a field supplied with a valid value keeps it in the validated
\* configuration, whatever the other fields are.
C29_FieldsIndependent ==
    call.op = "validateConfig"
    => \A f \in ConfigFields :
          ValidSupplied(call.config, f) => ret[f] = call.config[f]

-----------------------------------------------------------------------------
(* Properties of a failing backend.                                        *)

\* C30: a backend failure at one cell does not keep the operation from the
\* other cells: after setGrid every other non-empty cell of the layout is
\* placed, after setTacticalMode every other occupied tile carries the z-tint
\* and a visible label exactly when the overlay was enabled.
C30_FailureIsolated ==
    /\ call.op = "setGrid"
       => \A x \in Xs, y \in Ys :
             (<<x, y>> # call.fault /\ ~Falsy(call.tiles[y][x]))
             => \A z \in 0 .. CellHeight(call.tiles[y][x]) : Occupied(tiles, x, y, z)
    /\ call.op = "setTacticalMode"
       => \A c \in OccupiedSlots :
             c # call.fault => (CarriesZTint(TileAt(c)) <=> call.enabled)

-----------------------------------------------------------------------------
(* Placing, the identity of tiles and the overlays while the grid changes. *)

\* C31: setTile(x, y, z, tile) with a non-empty payload inside the bounds
\* leaves every cube that already stood below z in column (x, y) as it was
\* (the same tile with the same kind, facing and object) and leaves every
\* slot of every other column as it was; the slots that become occupied are
\* slots of column (x, y) at or below z.
C31_PlaceFrame ==
    [][(/\ call'.op = "setTile"
        /\ inBounds(call'.x, call'.y, call'.z)
        /\ ~Falsy(call'.tile))
       => /\ \A zz \in Zs :
                (zz < call'.z /\ tiles[zz][call'.y][call'.x] # NULL)
                => tiles'[zz][call'.y][call'.x] = tiles[zz][call'.y][call'.x]
          /\ \A x \in Xs, y \in Ys, zz \in Zs :
                <<x, y>> # <<call'.x, call'.y>> => tiles'[zz][y][x] = tiles[zz][y][x]
          /\ \A x \in Xs, y \in Ys, zz \in Zs :
                (tiles[zz][y][x] = NULL /\ tiles'[zz][y][x] # NULL)
                => (<<x, y>> = <<call'.x, call'.y>> /\ zz <= call'.z)]_vars

\* a cube of kind 2 with its facing and object stands on the ground of a
\* column on which a bare kind 1 was then placed at the highest level: the
\* levels between were created with kind 1, another column holds a cube
C31_Witness ==
    /\ call.op = "setTile" /\ call.z = maxZ /\ call.tile = NumSetter(1)
    /\ call.x \in Xs /\ call.y \in Ys
    /\ tiles[0][call.y][call.x] # NULL
    /\ tiles[0][call.y][call.x].tileId = 2
    /\ tiles[0][call.y][call.x].object = 1
    /\ tiles[1][call.y][call.x] # NULL
    /\ tiles[1][call.y][call.x].tileId = 1
    /\ tiles[maxZ][call.y][call.x] # NULL
    /\ \E x \in Xs, y \in Ys : <<x, y>> # <<call.x, call.y>> /\ tiles[0][y][x] # NULL

\* C32: the tile stored in slot (z, y, x) has x, y and z equal to the slot's
\* index and a tile kind that is not null; no call changes the z of a tile
\* that stays in its slot.
C32_Identity ==
    /\ [](\A x \in Xs, y \in Ys, z \in Zs :
            tiles[z][y][x] # NULL
            => /\ tiles[z][y][x].x = x
               /\ tiles[z][y][x].y = y
               /\ tiles[z][y][x].z = z
               /\ tiles[z][y][x].tileId # null)
    /\ [][\A x \in Xs, y \in Ys, z \in Zs :
            (tiles[z][y][x] # NULL /\ tiles'[z][y][x] # NULL)
            => tiles'[z][y][x].z = tiles[z][y][x].z]_vars

\* a record payload that names no height was placed at the highest level and
\* the grid was then rotated: the tiles of the column, created with a bare
\* level and set with the record, carry their slots' heights
C32_Witness ==
    /\ call.op = "updateDirection" /\ direction # North
    /\ \E x \in Xs, y \in Ys :
          /\ tiles[maxZ][y][x] # NULL
          /\ tiles[maxZ][y][x].z = maxZ
          /\ tiles[maxZ][y][x].tileId = 2
          /\ tiles[1][y][x] # NULL
          /\ tiles[1][y][x].z = 1

\* C33: setTile(x, y, z, kind) with a bare kind on a slot that holds a tile
\* leaves the slot with that kind, no facing and no attached object.
C33_BareKindReplaces ==
    [][(/\ call'.op = "setTile"
        /\ inBounds(call'.x, call'.y, call'.z)
        /\ call'.tile.t = "number" /\ call'.tile.n # 0
        /\ tiles[call'.z][call'.y][call'.x] # NULL)
       => /\ tiles'[call'.z][call'.y][call'.x] # NULL
          /\ tiles'[call'.z][call'.y][call'.x].tileId = call'.tile.n
          /\ tiles'[call'.z][call'.y][call'.x].tileDirection = null
          /\ tiles'[call'.z][call'.y][call'.x].object = null]_vars

\* C34: while the x-ray overlay is inactive, the highest tile of every
\* column that holds a tile is visible.
C34_TopVisible ==
    ~isMode2Active =>
        \A x \in Xs, y \in Ys :
            NonEmpty(tiles, x, y) => tiles[Highest(tiles, x, y)][y][x].sprite.visible

\* C35: while the x-ray overlay is active, the slots that hold an active
\* ghost handle are the unoccupied slots.
C35_GhostsFollowTiles ==
    isMode2Active =>
        \A c \in Slots :
            (GhostAt(c) # NoSprite /\ GhostAt(c) \in ActiveHandles)
            <=> ~Occupied(tiles, c[1], c[2], c[3])

\* C36: while the z-tint overlay is active every occupied tile is tinted
\* with the colour of the palette for its height, the tiles that a setTile
\* creates after the overlay was enabled among them: after a setTile that
\* follows setTacticalMode(true), every occupied tile carries that tint.
C36_TintWhileActive ==
    [][(/\ call.op = "setTacticalMode" /\ call.enabled
        /\ call'.op = "setTile")
       => \A x \in Xs, y \in Ys, z \in Zs :
             tiles'[z][y][x] # NULL
             => /\ tiles'[z][y][x].sprite.tint = TintOf(PaletteTint(z))
                /\ ~tiles'[z][y][x].sprite.tintFill]_vars

\* C37: every visible z-label belongs to a tile that occupies a slot: the
\* tile a call takes out of its slot, on which the grid has called set(null)
\* before dropping it, is left without a visible label.
C37_NoOrphanLabel ==
    [][\A x \in Xs, y \in Ys, z \in Zs :
          (tiles[z][y][x] # NULL /\ tiles'[z][y][x] = NULL)
          => LET removed == Tile_set(tiles[z][y][x], NullSetter, direction)
             IN  removed.zLevelText = NULL \/ ~removed.zLevelText.visible]_vars

\* C38: every ghost handle that is not destroyed is in exactly one place:
\* once in the pool and hidden, or visible at exactly one slot and not in the
\* pool; when setTacticalMode2(true) follows setTacticalMode2(true), the
\* active handles are again as many as the unoccupied slots.
C38_HandleInOnePlace ==
    /\ [](\A id \in DOMAIN sprites :
            ~sprites[id].destroyed
            => LET at == {c \in Slots : GhostAt(c) = id}
                   pooled == {i \in DOMAIN spritePool : spritePool[i] = id}
               IN  \/ (Cardinality(pooled) = 1 /\ at = {} /\ ~sprites[id].visible)
                   \/ (pooled = {} /\ Cardinality(at) = 1 /\ sprites[id].visible))
    /\ [][(JustEnabled /\ call'.op = "setTacticalMode2" /\ call'.enabled)
          => /\ Cardinality(ActiveIn(sprites')) = Unoccupied(tiles')
             /\ Cardinality({c \in Slots : ghostCubes'[c[3]][c[2]][c[1]] # NoSprite})
                   = Unoccupied(tiles')]_vars

\* the overlay was enabled, a cube was placed on the ground and the overlay
\* was enabled again: the handle of the slot now occupied is in the pool, the
\* others are active
C38_Witness ==
    /\ steps = 3
    /\ JustEnabled
    /\ Len(spritePool) = 1
    /\ Cardinality(ActiveHandles) = NumSlots - 1
    /\ GhostAt(<<0, 0, 0>>) = NoSprite

\* C39: for every valid configuration, the ghost of a slot and the tile
\* placed at the same slot under the same view direction have the same
\* screen position, and the ghost's depth is the tile's depth minus 0.5.
C39_GhostLikeTile ==
    call.op = "createGhostCubes"
    => /\ ret.ghost.x = ret.tile.x
       /\ ret.ghost.y = ret.tile.y
       /\ ret.ghost.depth2 = (2 * ret.tile.depth) - 1

\* C40: the tile that getTileByIsoPos returns is visible.
C40_PickVisible ==
    (call.op = "getTileByIsoPos" /\ ret # NULL) => ret.sprite.visible

====
